---- MODULE Spec2Model ----
(***************************************************************************)
(* Model of viability/viability.py: the transition-map builder             *)
(* (compute_Q_map), the grid indexer (digitize_s, get_grid_indices) and    *)
(* the viability-kernel solver (compute_QV, is_outside, project_Q2S).      *)
(*                                                                         *)
(* Conventions.  A grid is a sequence of 1-D coordinate sequences.  Array  *)
(* indices are 0-based as in numpy; a multi-index is a sequence of 0-based *)
(* integers; an N-D array is a function from its multi-indices, a flat     *)
(* array a function from 0..n-1.  Coordinates are integers; the free grids *)
(* use even node coordinates so that odd values fall strictly inside a     *)
(* cell.                                                                   *)
(***************************************************************************)
EXTENDS Integers, Sequences, FiniteSets, TLC

VARIABLES
    grids,      \* [states |-> tuple of 1-D grids, actions |-> tuple of 1-D grids]
    check_grid, \* the builder's check_grid argument
    Q_map,      \* transition table (N-D), None before the build
    Q_F,        \* failure flags (N-D)
    Q_on_grid,  \* exact-node flags (N-D), None when check_grid is off
    pc,         \* "build", "call", "while", "done", "raised"
    call,       \* number of compute_QV calls started so far
    seeded,     \* whether the running call was given a Q_V argument
    Q_V0,       \* Q_V as initialised by the running call (lines 244-246)
    Q_V,        \* the solver's viable set
    S_V,        \* the solver's state viable set
    S_old,      \* the solver's previous S_V
    passes,     \* while-loop passes of the running call
    cleared,    \* entries cleared by the latest pass of the running call
    first       \* the first call's returned Q_V and S_V and its initial Q_V0

\* The state of one pass of the solver when it is followed pair by pair
VARIABLES
    todo,       \* the pairs the running for loop has not visited yet
    Q_pre,      \* Q_V when the running for loop started
    S_pre       \* S_V when the running for loop started

\* The state of the two builders when they are followed step by step
VARIABLES
    p_map,      \* the map object: default parameters, oracle, decode
    b_pc,       \* where the program that runs both builders stands
    b_idx,      \* the loop index idx of compute_Q_map
    b_flat,     \* compute_Q_map's flat arrays, as far as they are written
    calls,      \* the (x, p) pairs compute_Q_map has called the oracle with
    raised,     \* the builders that ended with an exception
    args,       \* parcompute_Q_map's list of encoded points
    results,    \* the pool's result list, as far as it is filled
    pending,    \* the jobs the pool has not finished yet
    parT        \* what parcompute_Q_map returned

\* The state of a caller of the grid indexer
VARIABLES
    arg_s,      \* the point s given to digitize_s
    arg_s_grid, \* the grid tuple s_grid given to digitize_s
    ret,        \* what the latest call did: raised, or the index it returned
    prev,       \* the point and the outcome of the call before
    arg_bin,    \* the bin index given to get_grid_indices
    corners     \* the list get_grid_indices returned

\* The measures a caller computes from the solver's result
VARIABLES
    S_M,        \* project_Q2S(Q_V, grids, proj_opt=np.sum)
    Q_M         \* what map_S2Q returned

\* The state of get_feasibility_mask when it is followed step by step
\* The deprecated solver compute_QV_2D
VARIABLES
    grids_2D,   \* its grids; grids_2D.states is a column of coordinates
    Q_map_2D,   \* its Q_map: the successor state of each pair, 0 if none
    Q_V_2D,     \* its Q_V
    S_V_2D,     \* its S_V
    S_old_2D,   \* its S_old
    pc_2D       \* "call", "while", "done" or "raised"

\* poincare_map of the daslip and parslip models
VARIABLES
    pm_x,       \* the states given in batch form, a tuple of columns
    pm_p,       \* the parameters given in batch form, a tuple of dicts
    pm_sol,     \* what step(x, p) ends at, sol.y[:, -1]
    pm_fail,    \* check_failure
    pm_ret,     \* what the batch form returned
    pm_single,  \* what the single-point form returned for each column
    pm_pc       \* "call", "returned" or "raised"

\* Pass 1 of parcompute_Q_map with the encoder of the daslip model
VARIABLES
    x0_array,   \* the content of the array object p_map.p["x0"]
    x0_default, \* its content when parcompute_Q_map is called
    e_idx,      \* how many grid points have been encoded
    e_args,     \* the list args so far; p["x0"] holds a reference
    e_pc        \* "pass1" while args is built, "pool" once starmap is called

\* The pool of parcompute_Q_map
VARIABLES
    hung        \* the jobs whose oracle invocation never terminates

VARIABLES
    feasible,   \* the predicate given to get_feasibility_mask
    m_idx,      \* its loop index idx
    m_calls,    \* the (x, p) pairs the predicate has been called with
    m_flat,     \* the flat array Q_feasible, as far as it is written
    Q_feasible  \* what get_feasibility_mask returned

solverVars == <<grids, check_grid, Q_map, Q_F, Q_on_grid, pc, call, seeded,
                Q_V0, Q_V, S_V, S_old, passes, cleared, first>>

passVars == <<todo, Q_pre, S_pre>>

buildVars == <<p_map, b_pc, b_idx, b_flat, calls, raised, args, results, pending,
               parT>>

indexerVars == <<arg_s, arg_s_grid, ret, prev, arg_bin, corners>>

measureVars == <<S_M, Q_M>>

maskVars == <<feasible, m_idx, m_calls, m_flat, Q_feasible>>

poolVars == <<hung>>

encodeVars == <<x0_array, x0_default, e_idx, e_args, e_pc>>

twoDVars == <<grids_2D, Q_map_2D, Q_V_2D, S_V_2D, S_old_2D, pc_2D>>

batchVars == <<pm_x, pm_p, pm_sol, pm_fail, pm_ret, pm_single, pm_pc>>

\* The variables of the deprecated solver and of the models
restVars == <<twoDVars, batchVars>>

\* The variables of the parts of the program modelled last
laterVars == <<maskVars, poolVars, encodeVars, restVars>>

\* What the actions of the build-solve-solve program leave alone
otherVars == <<passVars, buildVars, indexerVars, measureVars, laterVars>>

\* The variables of the parts of the program modelled first
earlierVars ==
    <<solverVars, passVars, buildVars, indexerVars, measureVars>>

\* What the actions of get_feasibility_mask leave alone
exceptMask == <<earlierVars, poolVars, encodeVars, restVars>>

\* What the actions of the pool leave alone
exceptBuild ==
    <<solverVars, passVars, indexerVars, measureVars, maskVars, encodeVars,
      restVars>>

\* What the actions of Pass 1 with the daslip encoder leave alone
exceptEncode == <<earlierVars, maskVars, poolVars, restVars>>

\* What the actions of compute_QV_2D leave alone
except2D == <<earlierVars, maskVars, poolVars, encodeVars, batchVars>>

\* What the actions of poincare_map leave alone
exceptBatch == <<earlierVars, maskVars, poolVars, encodeVars, twoDVars>>

vars == <<solverVars, otherVars>>

\* Python's None; the empty tuple is no array and no shape of the model.
None == <<>>

\* Successor coordinates range from Margin below the first node of an axis
\* to Margin above its last node.
Margin == 1

-----------------------------------------------------------------------------
(* numpy / itertools helpers *)

RECURSIVE np_prod(_)
np_prod(shape) ==
    IF shape = <<>> THEN 1 ELSE Head(shape) * np_prod(Tail(shape))

\* list(map(np.size, grid_tuple))
grid_shape(grid_tuple) == [d \in 1..Len(grid_tuple) |-> Len(grid_tuple[d])]

\* tuple(dim+1 for dim in s_grid_shape)
bin_shape(grid_tuple) == [d \in 1..Len(grid_tuple) |-> Len(grid_tuple[d]) + 1]

RECURSIVE Concat(_)
Concat(seqs) == IF seqs = <<>> THEN <<>> ELSE Head(seqs) \o Concat(Tail(seqs))

\* itertools.product(*iterables): lexicographic, the last iterable fastest.
RECURSIVE it_product(_)
it_product(iterables) ==
    IF iterables = <<>> THEN << <<>> >>
    ELSE LET rest == it_product(Tail(iterables))
             h == Head(iterables)
         IN Concat([i \in 1..Len(h) |->
                      [j \in 1..Len(rest) |-> <<h[i]>> \o rest[j]]])

\* np.ravel_multi_index(idx, shape), C order; defined when idx is in range.
RECURSIVE ravel_acc(_, _, _)
ravel_acc(idx, shape, acc) ==
    IF idx = <<>> THEN acc
    ELSE ravel_acc(Tail(idx), Tail(shape), acc * Head(shape) + Head(idx))

np_ravel_multi_index(idx, shape) == ravel_acc(idx, shape, 0)

\* np.unravel_index(flat, shape), C order; defined for 0 <= flat < prod(shape).
np_unravel_index(flat, shape) ==
    [d \in 1..Len(shape) |->
        (flat \div np_prod(SubSeq(shape, d + 1, Len(shape)))) % shape[d]]

\* np.unravel_index raises ValueError outside this range.
unravel_ok(flat, shape) == flat >= 0 /\ flat < np_prod(shape)

\* the multi-indices of an array of the given shape (np.ndenumerate's keys)
ndindex(shape) == {np_unravel_index(i, shape) : i \in 0..(np_prod(shape) - 1)}

\* flat.reshape(shape[::-1]): the axes in reverse order
np_reshape_reversed(flat, shape) ==
    LET rev == [d \in 1..Len(shape) |-> shape[Len(shape) + 1 - d]]
    IN [m \in ndindex(rev) |-> flat[np_ravel_multi_index(m, rev)]]

\* flat.reshape(shape)
np_reshape(flat, shape) ==
    [m \in ndindex(shape) |-> flat[np_ravel_multi_index(m, shape)]]

\* np.digitize with right=True: the number of nodes < v.
np_digitize_right(v, grid) == Cardinality({i \in 1..Len(grid) : grid[i] < v})

\* np.digitize with the comparison turned round: the number of nodes >= v.
np_digitize_reversed(v, grid) ==
    Cardinality({i \in 1..Len(grid) : grid[i] >= v})

\* np.digitize(v, grid) for an increasing grid, right=False:
\* the i with grid[i-1] <= v < grid[i], i.e. the number of nodes <= v.
np_digitize(v, grid) == Cardinality({i \in 1..Len(grid) : grid[i] <= v})

Abs(x) == IF x < 0 THEN 0 - x ELSE x

\* np.argmin(np.abs(grid - v)): the first index of a minimal distance.
np_argmin_abs(grid, v) ==
    (CHOOSE i \in 1..Len(grid) :
        /\ \A j \in 1..Len(grid) : Abs(grid[i] - v) <= Abs(grid[j] - v)
        /\ \A j \in 1..(i - 1) : Abs(grid[j] - v) > Abs(grid[i] - v)) - 1

\* np.isin(v, grid)
np_isin(v, grid) == \E i \in 1..Len(grid) : grid[i] = v

-----------------------------------------------------------------------------
(* Grid indexer *)

\* digitize_s(s, s_grid, shape, to_bin); shape = None returns the index tuple.
digitize_s(s, s_grid, shape, to_bin) ==
    LET s_idx == [d \in 1..Len(s_grid) |->
                    IF to_bin THEN np_digitize(s[d], s_grid[d])
                    ELSE np_argmin_abs(s_grid[d], s[d])]
    IN IF shape = None THEN s_idx ELSE np_ravel_multi_index(s_idx, shape)

\* get_grid_indices with x > s_grid[idx].size as the upper bound test
get_grid_indices_closed(bin_idx, s_grid) ==
    LET nb == it_product([d \in 1..Len(bin_idx) |->
                              <<bin_idx[d] - 1, bin_idx[d]>>])
        in_bounds(n) == \A d \in 1..Len(n) :
                            ~(n[d] < 0 \/ n[d] > Len(s_grid[d]))
    IN SelectSeq(nb, in_bounds)

\* get_grid_indices(bin_idx, s_grid): the neighbours (x-1 or x per dimension)
\* that are inside the grid, in itertools.product order.
\* Neighbours kept only from node 1 on
get_grid_indices_inner(bin_idx, s_grid) ==
    LET nb == it_product([d \in 1..Len(bin_idx) |->
                              <<bin_idx[d] - 1, bin_idx[d]>>])
        in_bounds(n) == \A d \in 1..Len(n) :
                            ~(n[d] <= 0 \/ n[d] >= Len(s_grid[d]))
    IN SelectSeq(nb, in_bounds)

get_grid_indices(bin_idx, s_grid) ==
    LET nb == it_product([d \in 1..Len(bin_idx) |->
                              <<bin_idx[d] - 1, bin_idx[d]>>])
        in_bounds(n) == \A d \in 1..Len(n) :
                            ~(n[d] < 0 \/ n[d] >= Len(s_grid[d]))
    IN SelectSeq(nb, in_bounds)

-----------------------------------------------------------------------------
(* Transition map builder *)

\* it.product(*grids['actions'], *grids['states']): the actions outermost
state_action_points_actions_first(g) == it_product(g.actions \o g.states)

\* it.product(*grids['states'], *grids['actions'])
state_action_points(g) == it_product(g.states \o g.actions)

total_gridpoints(g) ==
    np_prod(grid_shape(g.states)) * np_prod(grid_shape(g.actions))

\* The loop body without the `if not failed` test: the successor of a failing
\* point is binned like any other.
Q_entry_nofail(g, pm, chk, idx) ==
    LET state_action == state_action_points(g)[idx + 1]
        s_next == pm[state_action].s_next
        failed == pm[state_action].failed
        off_grid == \E sdx \in 1..Len(s_next) :
                        ~np_isin(s_next[sdx], g.states[sdx])
    IN [Q_map |-> IF chk /\ ~off_grid
                  THEN digitize_s(s_next, g.states, grid_shape(g.states), FALSE)
                  ELSE digitize_s(s_next, g.states, bin_shape(g.states), TRUE),
        Q_F |-> failed,
        Q_on_grid |-> chk /\ ~off_grid]

\* The loop body flattening the on-grid index over the bin shape
Q_entry_binshape(g, pm, chk, idx) ==
    LET state_action == state_action_points(g)[idx + 1]
        s_next == pm[state_action].s_next
        failed == pm[state_action].failed
        off_grid == \E sdx \in 1..Len(s_next) :
                        ~np_isin(s_next[sdx], g.states[sdx])
    IN IF ~failed
       THEN IF chk
            THEN IF off_grid
                 THEN [Q_map |-> digitize_s(s_next, g.states,
                                            bin_shape(g.states), TRUE),
                       Q_F |-> FALSE, Q_on_grid |-> FALSE]
                 ELSE [Q_map |-> digitize_s(s_next, g.states,
                                            bin_shape(g.states), FALSE),
                       Q_F |-> FALSE, Q_on_grid |-> TRUE]
            ELSE [Q_map |-> digitize_s(s_next, g.states,
                                       bin_shape(g.states), TRUE),
                  Q_F |-> FALSE, Q_on_grid |-> FALSE]
       ELSE [Q_map |-> 0, Q_F |-> TRUE, Q_on_grid |-> FALSE]

\* One iteration of the builder's loop: what it writes at flat position idx.
\* p_map stands for xp2s(p_map(sa2xp(state_action, p))): the next
\* low-dimensional state and the failure flag of one grid point.
Q_entry(g, pm, chk, idx) ==
    LET state_action == state_action_points(g)[idx + 1]
        s_next == pm[state_action].s_next
        failed == pm[state_action].failed
        off_grid == \E sdx \in 1..Len(s_next) :
                        ~np_isin(s_next[sdx], g.states[sdx])
    IN IF ~failed
       THEN IF chk
            THEN IF off_grid
                 THEN [Q_map |-> digitize_s(s_next, g.states,
                                            bin_shape(g.states), TRUE),
                       Q_F |-> FALSE, Q_on_grid |-> FALSE]
                 ELSE [Q_map |-> digitize_s(s_next, g.states,
                                            grid_shape(g.states), FALSE),
                       Q_F |-> FALSE, Q_on_grid |-> TRUE]
            ELSE [Q_map |-> digitize_s(s_next, g.states,
                                       bin_shape(g.states), TRUE),
                  Q_F |-> FALSE, Q_on_grid |-> FALSE]
       ELSE [Q_map |-> 0, Q_F |-> TRUE, Q_on_grid |-> FALSE]

\* compute_Q_map(grids, p_map, check_grid=chk): the delivered arrays.
compute_Q_map(g, pm, chk) ==
    LET n == total_gridpoints(g)
        flat == [idx \in 0..(n - 1) |-> Q_entry(g, pm, chk, idx)]
        shape == grid_shape(g.states) \o grid_shape(g.actions)
    IN [Q_map |-> np_reshape([idx \in 0..(n - 1) |-> flat[idx].Q_map], shape),
        Q_F |-> np_reshape([idx \in 0..(n - 1) |-> flat[idx].Q_F], shape),
        Q_on_grid |->
            IF chk
            THEN np_reshape([idx \in 0..(n - 1) |-> flat[idx].Q_on_grid], shape)
            ELSE None]

-----------------------------------------------------------------------------
(* Viability kernel solver *)

\* project_Q2S with np.all in place of np.any
project_Q2S_all(Q, g) ==
    LET s_shape == grid_shape(g.states)
        a_shape == grid_shape(g.actions)
    IN [sdx \in ndindex(s_shape) |->
            \A adx \in ndindex(a_shape) : Q[sdx \o adx]]

\* project_Q2S(Q, grids) with the default proj_opt = np.any over the action axes
project_Q2S(Q, g) ==
    LET s_shape == grid_shape(g.states)
        a_shape == grid_shape(g.actions)
    IN [sdx \in ndindex(s_shape) |->
            \E adx \in ndindex(a_shape) : Q[sdx \o adx]]

\* Whether is_outside(s, s_grid, S_V, on_grid=on_grid) runs without an index
\* error: both unravel_index calls are in range and every S_V read is too.
is_outside_ok(s, s_grid, S, on_grid) ==
    /\ unravel_ok(s, bin_shape(s_grid))
    /\ on_grid => unravel_ok(s, grid_shape(s_grid))
    /\ ~on_grid =>
          LET edge_indices ==
                get_grid_indices(np_unravel_index(s, bin_shape(s_grid)), s_grid)
          IN \A k \in 1..Len(edge_indices) : edge_indices[k] \in DOMAIN S

\* is_outside looking at the first corner only
is_outside_first(s, s_grid, S, on_grid) ==
    LET bin_idx == np_unravel_index(s, bin_shape(s_grid))
    IN IF on_grid
       THEN ~S[np_unravel_index(s, grid_shape(s_grid))]
       ELSE LET edge_indices == get_grid_indices(bin_idx, s_grid)
            IN IF Len(edge_indices) > 0 THEN ~S[edge_indices[1]] ELSE TRUE

\* is_outside with the rule of its commented-out predecessor (lines 301-310):
\* a bin on the left-most or right-most side of the grid is outside.
is_outside_edges(s, s_grid, S, on_grid) ==
    LET bin_idx == np_unravel_index(s, bin_shape(s_grid))
    IN IF on_grid
       THEN ~S[np_unravel_index(s, grid_shape(s_grid))]
       ELSE IF \E d \in 1..Len(s_grid) :
                   bin_idx[d] = 0 \/ bin_idx[d] >= Len(s_grid[d])
            THEN TRUE
            ELSE LET edge_indices == get_grid_indices(bin_idx, s_grid)
                 IN \E k \in 1..Len(edge_indices) : ~S[edge_indices[k]]

\* is_outside(s, s_grid, S_V, on_grid=on_grid), already_binned = True
is_outside(s, s_grid, S, on_grid) ==
    LET bin_idx == np_unravel_index(s, bin_shape(s_grid))
    IN IF on_grid
       THEN ~S[np_unravel_index(s, grid_shape(s_grid))]
       ELSE LET edge_indices == get_grid_indices(bin_idx, s_grid)
            IN IF Len(edge_indices) > 0
               THEN \E k \in 1..Len(edge_indices) : ~S[edge_indices[k]]
               ELSE TRUE

\* Q_on_grid as compute_QV uses it: all False when the argument is None.
on_grid_of(Qog, QV) ==
    IF Qog = None THEN [q \in DOMAIN QV |-> FALSE] ELSE Qog

\* Lines 244-246: the initial estimate of Q_V (seed = None: Q_map.astype(bool)).
initial_Q_V(Qm, seed) ==
    IF seed = None THEN [q \in DOMAIN Qm |-> Qm[q] # 0] ELSE seed

\* The for loop without the `if is_viable` test: every entry is set from
\* is_outside.
pass_Q_V_all(Qm, g, QV, S, Qog) ==
    [q \in DOMAIN QV |->
        ~is_outside(Qm[q], g.states, S, on_grid_of(Qog, QV)[q])]

\* The for loop of one pass (lines 258-265): S is not written by the loop.
pass_Q_V(Qm, g, QV, S, Qog) ==
    [q \in DOMAIN QV |->
        IF QV[q]
        THEN IF is_outside(Qm[q], g.states, S, on_grid_of(Qog, QV)[q])
             THEN FALSE
             ELSE QV[q]
        ELSE QV[q]]

\* No is_outside call of the pass raises.
pass_ok(Qm, g, QV, S, Qog) ==
    \A q \in DOMAIN QV :
        QV[q] => is_outside_ok(Qm[q], g.states, S, on_grid_of(Qog, QV)[q])

\* The while condition of compute_QV_2D (line 81), without the `not`.
loop_test_2D(S, So) == S = So

\* The while condition of line 256.
loop_test(S, So) == S # So

count_true(Q) == Cardinality({q \in DOMAIN Q : Q[q]})

-----------------------------------------------------------------------------
(* Inputs *)

\* Scenario A: state grid [0,1,2], action grid [0,1]
ScenarioGrids == [states |-> << <<0, 1, 2>> >>, actions |-> << <<0, 1>> >>]

\* Scenario A's oracle: fails when state - action < 0, else returns state - action
ScenarioA ==
    [sa \in {<<s, a>> : s \in {0, 1, 2}, a \in {0, 1}} |->
        IF sa[1] - sa[2] < 0
        THEN [s_next |-> <<sa[1]>>, failed |-> TRUE]
        ELSE [s_next |-> <<sa[1] - sa[2]>>, failed |-> FALSE]]

\* Grids on which every oracle is tried: 1-D with two actions, 1-D with three
\* nodes, and 2-D.
FreeGrids ==
    { [states |-> << <<0, 2>> >>, actions |-> << <<0, 2>> >>],
      [states |-> << <<0, 2, 4>> >>, actions |-> << <<0>> >>],
      [states |-> << <<0, 2>>, <<0>> >>, actions |-> << <<0>> >>] }

GridConfigs == FreeGrids \cup {ScenarioGrids}

SeqToSet(seq) == {seq[i] : i \in 1..Len(seq)}

\* The next states an oracle may return on a free grid.
SuccVals(s_grid) ==
    LET lo(d) == s_grid[d][1] - Margin
        hi(d) == s_grid[d][Len(s_grid[d])] + Margin
        all == UNION {lo(d)..hi(d) : d \in 1..Len(s_grid)}
    IN {v \in [1..Len(s_grid) -> all] :
            \A d \in 1..Len(s_grid) : v[d] >= lo(d) /\ v[d] <= hi(d)}

\* The results an oracle may give at one point: any next state without
\* failure, or failure (reported with the state it was called on).
Results(g, sa) ==
    {[s_next |-> v, failed |-> FALSE] : v \in SuccVals(g.states)}
    \cup {[s_next |-> SubSeq(sa, 1, Len(g.states)), failed |-> TRUE]}

Oracles(g) ==
    IF g = ScenarioGrids THEN {ScenarioA}
    ELSE LET pts == SeqToSet(state_action_points(g))
             all == UNION {Results(g, sa) : sa \in pts}
         IN {pm \in [pts -> all] : \A sa \in pts : pm[sa] \in Results(g, sa)}

Q_shape(g) == grid_shape(g.states) \o grid_shape(g.actions)

-----------------------------------------------------------------------------
(* The program: build the table, solve, solve again from the result *)

\* No for loop is being followed.
PassIdle == todo = {} /\ Q_pre = None /\ S_pre = None

\* No builder is being followed.
BuildIdle ==
    /\ p_map = None /\ b_pc = "idle" /\ b_idx = 0 /\ b_flat = None
    /\ calls = <<>> /\ raised = {} /\ args = None /\ results = None
    /\ pending = {} /\ parT = None

\* get_feasibility_mask is not being followed.
MaskIdle ==
    /\ feasible = None /\ m_idx = 0 /\ m_calls = <<>> /\ m_flat = None
    /\ Q_feasible = None

\* None of the parts modelled last is being followed.
\* No job of the pool hangs.
PoolIdle == hung = {}

\* Pass 1 with the daslip encoder is not being followed.
EncodeIdle ==
    /\ x0_array = None /\ x0_default = None /\ e_idx = 0 /\ e_args = <<>>
    /\ e_pc = "idle"

\* compute_QV_2D is not being followed.
TwoDIdle ==
    /\ grids_2D = None /\ Q_map_2D = None /\ Q_V_2D = None
    /\ S_V_2D = None /\ S_old_2D = None /\ pc_2D = "idle"

\* poincare_map is not being followed.
BatchIdle ==
    /\ pm_x = None /\ pm_p = None /\ pm_sol = None /\ pm_fail = None
    /\ pm_ret = None /\ pm_single = None /\ pm_pc = "idle"

RestIdle == TwoDIdle /\ BatchIdle

LaterIdle == MaskIdle /\ PoolIdle /\ EncodeIdle /\ RestIdle

\* No measure has been computed.
MeasureIdle == S_M = None /\ Q_M = None

\* No call of the grid indexer is being followed.
IndexerIdle ==
    /\ arg_s = None /\ arg_s_grid = None /\ ret = None /\ prev = None
    /\ arg_bin = None /\ corners = None

Init ==
    /\ grids \in GridConfigs
    /\ check_grid \in BOOLEAN
    /\ Q_map = None /\ Q_F = None /\ Q_on_grid = None
    /\ pc = "build"
    /\ call = 0
    /\ seeded = FALSE
    /\ Q_V0 = None /\ Q_V = None /\ S_V = None /\ S_old = None
    /\ passes = 0
    /\ cleared = 0
    /\ first = None
    /\ PassIdle
    /\ MeasureIdle
    /\ LaterIdle
    /\ BuildIdle
    /\ IndexerIdle

\* Q_map, Q_F[, Q_on_grid] = compute_Q_map(grids, p_map, check_grid=...),
\* for any oracle p_map of the grid
Build ==
    /\ pc = "build"
    /\ \E pm \in Oracles(grids) :
          LET t == compute_Q_map(grids, pm, check_grid)
          IN /\ Q_map' = t.Q_map
             /\ Q_F' = t.Q_F
             /\ Q_on_grid' = t.Q_on_grid
    /\ pc' = "call"
    /\ UNCHANGED <<grids, check_grid, call, seeded, Q_V0, Q_V, S_V,
                   S_old, passes, cleared, first>>
    /\ UNCHANGED otherVars

\* compute_QV up to the while loop (lines 243-253) for the given Q_V argument
enter_compute_QV(seed) ==
    /\ seeded' = (seed # None)
    /\ Q_V0' = initial_Q_V(Q_map, seed)
    /\ Q_V' = initial_Q_V(Q_map, seed)
    /\ S_V' = project_Q2S(initial_Q_V(Q_map, seed), grids)
    /\ S_old' = [sdx \in ndindex(grid_shape(grids.states)) |-> FALSE]
    /\ passes' = 0
    /\ cleared' = 0
    /\ call' = call + 1
    /\ pc' = "while"

\* compute_QV(Q_map, grids[, Q_V][, Q_on_grid=Q_on_grid]) is called
Call ==
    /\ pc = "call"
    /\ \E seed \in {None} \cup [ndindex(Q_shape(grids)) -> BOOLEAN] :
          enter_compute_QV(seed)
    /\ UNCHANGED <<grids, check_grid, Q_map, Q_F, Q_on_grid, first>>
    /\ UNCHANGED otherVars

\* A pass that saves S_old after S_V has been recomputed
Pass_swapped ==
    /\ pc = "while"
    /\ loop_test(S_V, S_old)
    /\ pass_ok(Q_map, grids, Q_V, S_V, Q_on_grid)
    /\ Q_V' = pass_Q_V(Q_map, grids, Q_V, S_V, Q_on_grid)
    /\ S_V' = project_Q2S(Q_V', grids)
    /\ S_old' = S_V'
    /\ passes' = passes + 1
    /\ cleared' = count_true(Q_V) - count_true(Q_V')
    /\ UNCHANGED <<grids, check_grid, Q_map, Q_F, Q_on_grid, pc, call,
                   seeded, Q_V0, first>>
    /\ UNCHANGED otherVars

\* One pass of the while loop (lines 256-267)
Pass ==
    /\ pc = "while"
    /\ loop_test(S_V, S_old)
    /\ pass_ok(Q_map, grids, Q_V, S_V, Q_on_grid)
    /\ Q_V' = pass_Q_V(Q_map, grids, Q_V, S_V, Q_on_grid)
    /\ S_old' = S_V
    /\ S_V' = project_Q2S(Q_V', grids)
    /\ passes' = passes + 1
    /\ cleared' = count_true(Q_V) - count_true(Q_V')
    /\ UNCHANGED <<grids, check_grid, Q_map, Q_F, Q_on_grid, pc, call,
                   seeded, Q_V0, first>>
    /\ UNCHANGED otherVars

\* The loop exits and compute_QV returns (Q_V, S_V) (line 269)
Return ==
    /\ pc = "while"
    /\ ~loop_test(S_V, S_old)
    /\ pc' = "done"
    /\ UNCHANGED <<grids, check_grid, Q_map, Q_F, Q_on_grid, call,
                   seeded, Q_V0, Q_V, S_V, S_old, passes, cleared, first>>
    /\ UNCHANGED otherVars

\* The caller runs compute_QV again with the returned Q_V as seed
Recall ==
    /\ pc = "done"
    /\ call = 1
    /\ first' = [Q_V |-> Q_V, S_V |-> S_V, Q_V0 |-> Q_V0]
    /\ enter_compute_QV(Q_V)
    /\ UNCHANGED <<grids, check_grid, Q_map, Q_F, Q_on_grid>>
    /\ UNCHANGED otherVars

Next == Build \/ Call \/ Pass \/ Return \/ Recall

Spec == Init /\ [][Next]_vars

-----------------------------------------------------------------------------
(* Properties of the solver *)

InSolver == pc \in {"while", "done"}

viable(Q) == {q \in DOMAIN Q : Q[q]}

notQ_F == [q \in DOMAIN Q_F |-> ~Q_F[q]]

\* The first call is one the demos make: no seed, or the seed ~Q_F.
StandardCall == call = 1 /\ (~seeded \/ Q_V0 = notQ_F)

\* The recorded successor of pair q, read as the builder wrote it.
successor_node(q) == np_unravel_index(Q_map[q], grid_shape(grids.states))

successor_corners(q) ==
    get_grid_indices(np_unravel_index(Q_map[q], bin_shape(grids.states)),
                     grids.states)

\* The successor of q is not outside with respect to the state set S.
successor_inside(q, S) ==
    IF Q_on_grid # None /\ Q_on_grid[q]
    THEN S[successor_node(q)]
    ELSE /\ Len(successor_corners(q)) > 0
         /\ \A k \in 1..Len(successor_corners(q)) : S[successor_corners(q)[k]]

\* The OR-projection of a set X of pairs onto the state grid.
states_of(X) ==
    [sdx \in ndindex(grid_shape(grids.states)) |->
        \E q \in X : SubSeq(q, 1, Len(grids.states)) = sdx]

\* X is closed under the outside rule.
Closed(X) == \A q \in X : successor_inside(q, states_of(X))

\* C1: when compute_QV returns (Q_V, S_V), every viable pair has a recorded
\* successor that is not outside with respect to the returned S_V.
C1_ReturnedSetClosed ==
    pc = "done" => \A q \in DOMAIN Q_V : Q_V[q] => successor_inside(q, S_V)

\* The last pass cleared entries of Q_V without changing S_V, and pairs remain.
C1_Witness ==
    /\ pc = "done"
    /\ passes >= 1
    /\ cleared > 0
    /\ S_V = S_old
    /\ viable(Q_V) # {}

\* C2: the returned Q_V is the greatest subset of the initial viable set that
\* is closed under the outside rule: the union of all closed subsets.
C2_GreatestClosedSubset ==
    pc = "done" =>
        viable(Q_V) = UNION {X \in SUBSET viable(Q_V0) : Closed(X)}

\* A call that took several passes, cleared some pairs and kept others.
C2_Witness ==
    /\ pc = "done"
    /\ passes >= 2
    /\ viable(Q_V) # {}
    /\ viable(Q_V) # viable(Q_V0)

\* C3: in every step of the solver loop an entry of Q_V may go from true to
\* false but never from false to true; the number of true entries does not grow.
C3_OnlyShrinks ==
    [][pc = "while" =>
          /\ \A q \in DOMAIN Q_V : Q_V'[q] => Q_V[q]
          /\ count_true(Q_V') <= count_true(Q_V)]_vars

\* A pass has cleared an entry and left another viable.
C3_Witness ==
    /\ pc = "while"
    /\ passes >= 1
    /\ cleared >= 1
    /\ viable(Q_V) # {}

\* C4: the while loop runs at most |Q_V| passes, hence compute_QV terminates,
\* and it runs no pass at all when the initial S_V is all false.
C4_PassesBounded ==
    InSolver =>
        /\ passes <= Cardinality(DOMAIN Q_V)
        /\ viable(Q_V0) = {} => passes = 0

\* A call that needed as many passes as Q_V has entries.
C4_Witness ==
    /\ pc = "done"
    /\ Cardinality(DOMAIN Q_V) >= 3
    /\ passes = Cardinality(DOMAIN Q_V)

\* C5: on a built table solved with no seed or with the seed ~Q_F, no failing
\* pair is viable, after every pass and at termination.
C5_NoFailingPairViable ==
    (InSolver /\ StandardCall) =>
        \A q \in DOMAIN Q_V : ~(Q_V[q] /\ Q_F[q])

\* An unseeded call on a table with a failing pair has run a pass and returned
\* with viable pairs left.
C5_Witness ==
    /\ pc = "done"
    /\ call = 1
    /\ ~seeded
    /\ passes >= 1
    /\ viable(Q_F) # {}
    /\ viable(Q_V) # {}

\* C6: S_V[s] is true iff some action a has Q_V[s,a] true, after every pass
\* and when compute_QV returns.
C6_ProjectionConsistent ==
    InSolver =>
        \A sdx \in DOMAIN S_V :
            S_V[sdx] <=> \E q \in DOMAIN Q_V :
                            Q_V[q] /\ SubSeq(q, 1, Len(grids.states)) = sdx

\* A pass has just removed a state from S_V while another state stays viable.
C6_Witness ==
    /\ pc = "while"
    /\ passes >= 1
    /\ S_V # S_old
    /\ \E sdx \in DOMAIN S_V : S_V[sdx]
    /\ \E q \in DOMAIN Q_V : Q_V[q] /\ q[Len(q)] # 0

\* C7: a second call seeded with the Q_V a first call returned clears no entry
\* and returns the same Q_V and S_V.
C7_Idempotent ==
    call = 2 =>
        /\ Q_V = first.Q_V
        /\ pc = "done" => S_V = first.S_V

\* The second call has returned after a first call that pruned some pairs.
C7_Witness ==
    /\ call = 2
    /\ pc = "done"
    /\ passes >= 1
    /\ first.Q_V # first.Q_V0
    /\ viable(Q_V) # {}

-----------------------------------------------------------------------------
(* Properties of the builder followed by the solver *)

\* C8: an unseeded call starts from NOT Q_F: every non-failing pair starts
\* viable, also one whose stored Q_map value is 0.
C8_UnseededStartsFromNotQ_F ==
    (InSolver /\ call = 1 /\ ~seeded) => Q_V0 = notQ_F

\* Scenario A's expected failure set: Q_F true only at [0,1]
ScenarioQ_F == Q_F = [q \in DOMAIN Q_F |-> q = <<0, 1>>]

\* C9 as stated: on Scenario A (built and solved with the default arguments or
\* with the seed ~Q_F) the solver converges with S_V = [false, true, true].
C9_ScenarioA_Stated ==
    (grids = ScenarioGrids /\ ~check_grid /\ pc = "done" /\ StandardCall) =>
        /\ ScenarioQ_F
        /\ S_V = [sdx \in DOMAIN S_V |-> sdx # <<0>>]

\* C9 as amended: on Scenario A the builder yields Q_F true only at [0,1] and
\* the solver prunes nothing, S_V = [true, true, true]; only an unseeded call
\* on a table built with check_grid starts without the pairs stored as 0 and
\* returns S_V = [false, true, true].
C9_ScenarioA ==
    (grids = ScenarioGrids /\ pc = "done" /\ StandardCall) =>
        /\ ScenarioQ_F
        /\ IF check_grid /\ ~seeded
           THEN S_V = [sdx \in DOMAIN S_V |-> sdx # <<0>>]
           ELSE /\ S_V = [sdx \in DOMAIN S_V |-> TRUE]
                /\ Q_V = notQ_F

\* Scenario A built and solved with the default arguments has converged.
C9_Witness ==
    /\ grids = ScenarioGrids
    /\ ~check_grid
    /\ pc = "done"
    /\ call = 1
    /\ ~seeded
    /\ passes >= 1

\* The successor of the non-failing pair q was binned below the first or
\* at/above the last node of every axis.
off_range(q) ==
    /\ ~Q_F[q]
    /\ Q_on_grid = None \/ ~Q_on_grid[q]
    /\ LET bin_idx == np_unravel_index(Q_map[q], bin_shape(grids.states))
       IN \A d \in 1..Len(grids.states) :
             bin_idx[d] = 0 \/ bin_idx[d] = Len(grids.states[d])

\* C10: a non-failing pair whose successor leaves the grid range in every
\* dimension is not viable when the solver returns, and no pass of the solver
\* makes an out-of-bounds access.
C10_OffRangeSuccessorNotViable ==
    /\ (pc = "done" /\ StandardCall) =>
          \A q \in DOMAIN Q_V : off_range(q) => ~Q_V[q]
    /\ pc = "while" => pass_ok(Q_map, grids, Q_V, S_V, Q_on_grid)

-----------------------------------------------------------------------------
(* One pass of the solver, pair by pair.  np.ndenumerate visits the pairs in *)
(* row-major order; here the for loop may visit them in any order.          *)

\* Grids on which the passes are followed pair by pair
PassGrids ==
    { [states |-> << <<0, 2, 4>> >>, actions |-> << <<0>> >>],
      [states |-> << <<0, 2>>, <<0>> >>, actions |-> << <<0>> >>],
      ScenarioGrids }

InitPass == Init /\ grids \in PassGrids

\* The body of the for loop for the pair qdx (lines 260-264)
visit_Q_V(Qm, g, QV, S, Qog, qdx) ==
    IF QV[qdx]
    THEN IF is_outside(Qm[qdx], g.states, S, on_grid_of(Qog, QV)[qdx])
         THEN [QV EXCEPT ![qdx] = FALSE]
         ELSE QV
    ELSE QV

\* The while condition holds and the for loop starts (lines 256-258)
BeginPass ==
    /\ pc = "while"
    /\ loop_test(S_V, S_old)
    /\ pc' = "for"
    /\ todo' = DOMAIN Q_V
    /\ Q_pre' = Q_V
    /\ S_pre' = S_V
    /\ UNCHANGED <<grids, check_grid, Q_map, Q_F, Q_on_grid, call, seeded,
                   Q_V0, Q_V, S_V, S_old, passes, cleared, first>>
    /\ UNCHANGED <<buildVars, indexerVars, measureVars, laterVars>>

\* A for loop body that refreshes S_V as soon as it has cleared an entry
Visit_live ==
    /\ pc = "for"
    /\ \E qdx \in todo :
          /\ is_outside_ok(Q_map[qdx], grids.states, S_V,
                           on_grid_of(Q_on_grid, Q_V)[qdx])
          /\ Q_V' = visit_Q_V(Q_map, grids, Q_V, S_V, Q_on_grid, qdx)
          /\ todo' = todo \ {qdx}
    /\ S_V' = project_Q2S(Q_V', grids)
    /\ UNCHANGED <<grids, check_grid, Q_map, Q_F, Q_on_grid, pc, call, seeded,
                   Q_V0, S_old, passes, cleared, first, Q_pre, S_pre>>
    /\ UNCHANGED <<buildVars, indexerVars, measureVars, laterVars>>

\* The for loop visits one more pair (lines 258-265)
Visit ==
    /\ pc = "for"
    /\ \E qdx \in todo :
          /\ is_outside_ok(Q_map[qdx], grids.states, S_V,
                           on_grid_of(Q_on_grid, Q_V)[qdx])
          /\ Q_V' = visit_Q_V(Q_map, grids, Q_V, S_V, Q_on_grid, qdx)
          /\ todo' = todo \ {qdx}
    /\ UNCHANGED <<grids, check_grid, Q_map, Q_F, Q_on_grid, pc, call, seeded,
                   Q_V0, S_V, S_old, passes, cleared, first, Q_pre, S_pre>>
    /\ UNCHANGED <<buildVars, indexerVars, measureVars, laterVars>>

\* The for loop is over: S_old and S_V are updated (lines 266-267)
EndPass ==
    /\ pc = "for"
    /\ todo = {}
    /\ S_old' = S_V
    /\ S_V' = project_Q2S(Q_V, grids)
    /\ passes' = passes + 1
    /\ cleared' = count_true(Q_pre) - count_true(Q_V)
    /\ pc' = "while"
    /\ UNCHANGED <<grids, check_grid, Q_map, Q_F, Q_on_grid, call, seeded,
                   Q_V0, Q_V, first, todo, Q_pre, S_pre>>
    /\ UNCHANGED <<buildVars, indexerVars, measureVars, laterVars>>

\* project_Q2S(Q, grids, proj_opt=np.sum): the number of true entries over
\* the action axes
project_Q2S_sum(Q, g) ==
    [sdx \in ndindex(grid_shape(g.states)) |->
        Cardinality({adx \in ndindex(grid_shape(g.actions)) : Q[sdx \o adx]})]

\* measure += S_M[(idx)] over the list edge_indices (lines 369-370)
RECURSIVE sum_over(_, _)
sum_over(S, edge_indices) ==
    IF edge_indices = <<>> THEN 0
    ELSE S[Head(edge_indices)] + sum_over(S, Tail(edge_indices))

\* The body of map_S2Q's loop for a viable pair (lines 357-375): the measure
\* as the fraction num / den
measure_of(Qm_q, SM, s_grid, on_grid) ==
    LET sdx == IF on_grid
               THEN np_unravel_index(Qm_q, grid_shape(s_grid))
               ELSE np_unravel_index(Qm_q, bin_shape(s_grid))
        edge_indices == get_grid_indices(sdx, s_grid)
    IN IF Len(edge_indices) > 0
       THEN [num |-> sum_over(SM, edge_indices), den |-> Len(edge_indices)]
       ELSE [num |-> 0, den |-> 1]

\* map_S2Q(Q_map, S_M, s_grid, Q_V=QV, Q_on_grid=Qog)
map_S2Q(Qm, SM, s_grid, QV, Qog) ==
    [qdx \in DOMAIN Qm |->
        IF initial_Q_V(Qm, QV)[qdx]
        THEN measure_of(Qm[qdx], SM, s_grid,
                        on_grid_of(Qog, initial_Q_V(Qm, QV))[qdx])
        ELSE [num |-> 0, den |-> 1]]

\* The caller computes S_M by summing Q_V over the actions and maps it back
MapS2Q ==
    /\ pc = "done"
    /\ pc' = "mapped"
    /\ S_M' = project_Q2S_sum(Q_V, grids)
    /\ Q_M' = map_S2Q(Q_map, project_Q2S_sum(Q_V, grids), grids.states, Q_V,
                      Q_on_grid)
    /\ UNCHANGED <<grids, check_grid, Q_map, Q_F, Q_on_grid, call,
                   seeded, Q_V0, Q_V, S_V, S_old, passes, cleared, first>>
    /\ UNCHANGED <<passVars, buildVars, indexerVars, laterVars>>

NextPass ==
    Build \/ Call \/ BeginPass \/ Visit \/ EndPass \/ Return \/ MapS2Q

SpecPass == InitPass /\ [][NextPass]_vars

\* C11: while a pass runs S_V stays the S_V computed before the pass, and
\* whatever the order of the visits, a visited pair is viable iff it was
\* viable before the pass and its successor is not outside that S_V; so the
\* pass clears exactly the viable pairs whose successor is outside.
C11_PassClearsExactlyOutside ==
    pc = "for" =>
        /\ S_V = S_pre
        /\ \A q \in DOMAIN Q_V :
              Q_V[q] = IF q \in todo THEN Q_pre[q]
                       ELSE Q_pre[q] /\ successor_inside(q, S_pre)

\* A for loop has ended in which a state lost its last viable pair while a
\* pair leading to that state was kept: the visiting order would matter if
\* S_V were refreshed inside the loop.
C11_Witness ==
    /\ pc = "for"
    /\ todo = {}
    /\ Q_V # Q_pre
    /\ \E q \in DOMAIN Q_V :
          Q_V[q] /\ ~successor_inside(q, project_Q2S(Q_V, grids))

-----------------------------------------------------------------------------
(* The two builders, step by step, on the same map object *)

\* The map object's default parameters p_map.p
p_default(g) == [action |-> [d \in 1..Len(g.actions) |-> 0]]

\* p_map.sa2xp(state_action, p_def), written as sa2xp_y_xdot_aoa is: the
\* parameters are a copy of the defaults with the action written into it, the
\* full state is the state part of the point.
sa2xp(g, state_action, p_def) ==
    [x |-> SubSeq(state_action, 1, Len(g.states)),
     p |-> [p_def EXCEPT
               !.action = SubSeq(state_action, Len(g.states) + 1,
                                 Len(state_action))]]

\* p_map(x, p): the oracle is a pure function of the encoded point
call_p_map(pm, x, p) ==
    [x_next |-> pm.step[x \o p.action].s_next,
     failed |-> pm.step[x \o p.action].failed]

\* p_map.xp2s(x, p): "x" reads the state only, as xp2s_y_xdot does; "xp"
\* also reads a parameter that sa2xp sets at every point.
xp2s(pm, x, p) ==
    IF pm.xp2s = "x" THEN x
    ELSE [d \in 1..Len(x) |-> x[d] + p.action[1]]

\* The map objects tried on a grid
P_maps(g) ==
    {[p |-> p_default(g), step |-> o, xp2s |-> k] :
        o \in Oracles(g), k \in {"x", "xp"}}

\* np.digitize raises ValueError on bins that are neither non-decreasing nor
\* non-increasing
np_digitize_raises(grid) ==
    /\ \E i \in 1..(Len(grid) - 1) : grid[i] > grid[i + 1]
    /\ \E i \in 1..(Len(grid) - 1) : grid[i] < grid[i + 1]

\* Whether the loop body raises at the point of flat position i: digitize_s
\* is reached in bin mode on a grid np.digitize rejects.
entry_raises(g, pm, chk, i) ==
    LET state_action == state_action_points(g)[i + 1]
        s_next == pm[state_action].s_next
        failed == pm[state_action].failed
        off_grid == \E sdx \in 1..Len(s_next) :
                        ~np_isin(s_next[sdx], g.states[sdx])
    IN /\ ~failed
       /\ ~chk \/ off_grid
       /\ \E d \in 1..Len(g.states) : np_digitize_raises(g.states[d])

\* Lines 185-189 of compute_Q_map as a map from the point to (s_next, failed):
\* xp2s gets the p that sa2xp returned for the point.
seq_map(g, pm) ==
    [state_action \in DOMAIN pm.step |->
        LET xp == sa2xp(g, state_action, pm.p)
            r == call_p_map(pm, xp.x, xp.p)
        IN [s_next |-> xp2s(pm, r.x_next, xp.p), failed |-> r.failed]]

\* Lines 505-506 of parcompute_Q_map as a map from the point to
\* (s_next, failed): xp2s gets p, the copy of the defaults made at line 479.
par_map(g, pm, res) ==
    [state_action \in DOMAIN pm.step |->
        LET i == CHOOSE i \in DOMAIN res :
                     state_action_points(g)[i + 1] = state_action
        IN [s_next |-> xp2s(pm, res[i].x_next, pm.p),
            failed |-> res[i].failed]]

\* Grids with a configuration error: coordinates that go up and down, and a
\* state grid without coordinates.
ErrorGrids ==
    { [states |-> << <<0, 4, 2>> >>, actions |-> << <<0>> >>],
      [states |-> << <<>> >>, actions |-> << <<0>> >>] }

\* Grids on which the builders are followed step by step: one whose only
\* action differs from the default parameters, the free grids with one
\* action, Scenario A's grid, and the grids with a configuration error.
BuildGrids ==
    { [states |-> << <<0, 2>> >>, actions |-> << <<2>> >>],
      [states |-> << <<0, 2, 4>> >>, actions |-> << <<0>> >>],
      [states |-> << <<0, 2>>, <<0>> >>, actions |-> << <<0>> >>],
      ScenarioGrids } \cup ErrorGrids

InitBuild ==
    /\ grids \in BuildGrids
    /\ check_grid \in BOOLEAN
    /\ Q_map = None /\ Q_F = None /\ Q_on_grid = None
    /\ pc = "build"
    /\ call = 0
    /\ seeded = FALSE
    /\ Q_V0 = None /\ Q_V = None /\ S_V = None /\ S_old = None
    /\ passes = 0
    /\ cleared = 0
    /\ first = None
    /\ PassIdle
    /\ MeasureIdle
    /\ LaterIdle
    /\ IndexerIdle
    /\ p_map \in P_maps(grids)
    /\ b_pc = "seq" /\ b_idx = 0 /\ b_flat = None
    /\ calls = <<>> /\ raised = {} /\ args = None /\ results = None
    /\ pending = {} /\ parT = None

\* An iteration that gives up the build when the oracle reports a failure
SeqStep_abort ==
    /\ b_pc = "seq"
    /\ b_idx < total_gridpoints(grids)
    /\ calls' = Append(calls,
                       sa2xp(grids, state_action_points(grids)[b_idx + 1],
                             p_map.p))
    /\ IF \/ entry_raises(grids, seq_map(grids, p_map), check_grid, b_idx)
          \/ seq_map(grids, p_map)[state_action_points(grids)[b_idx + 1]].failed
       THEN /\ raised' = raised \cup {"seq"}
            /\ b_pc' = "pass1"
            /\ UNCHANGED <<b_idx, b_flat>>
       ELSE /\ b_flat' = (b_idx :> Q_entry(grids, seq_map(grids, p_map),
                                           check_grid, b_idx)) @@ b_flat
            /\ b_idx' = b_idx + 1
            /\ UNCHANGED <<raised, b_pc>>
    /\ UNCHANGED <<p_map, args, results, pending, parT>>
    /\ UNCHANGED <<solverVars, passVars, indexerVars, measureVars, laterVars>>

\* One iteration of compute_Q_map's loop (lines 177-213): the oracle is
\* called, then the entry is written, unless digitize_s raises.
SeqStep ==
    /\ b_pc = "seq"
    /\ b_idx < total_gridpoints(grids)
    /\ calls' = Append(calls,
                       sa2xp(grids, state_action_points(grids)[b_idx + 1],
                             p_map.p))
    /\ IF entry_raises(grids, seq_map(grids, p_map), check_grid, b_idx)
       THEN /\ raised' = raised \cup {"seq"}
            /\ b_pc' = "pass1"
            /\ UNCHANGED <<b_idx, b_flat>>
       ELSE /\ b_flat' = (b_idx :> Q_entry(grids, seq_map(grids, p_map),
                                           check_grid, b_idx)) @@ b_flat
            /\ b_idx' = b_idx + 1
            /\ UNCHANGED <<raised, b_pc>>
    /\ UNCHANGED <<p_map, args, results, pending, parT>>
    /\ UNCHANGED <<solverVars, passVars, indexerVars, measureVars, laterVars>>

\* The loop is over: compute_Q_map reshapes and returns (lines 215-225)
SeqReturn ==
    /\ b_pc = "seq"
    /\ b_idx = total_gridpoints(grids)
    /\ Q_map' = np_reshape([i \in DOMAIN b_flat |-> b_flat[i].Q_map],
                           Q_shape(grids))
    /\ Q_F' = np_reshape([i \in DOMAIN b_flat |-> b_flat[i].Q_F],
                         Q_shape(grids))
    /\ Q_on_grid' = IF check_grid
                    THEN np_reshape([i \in DOMAIN b_flat |->
                                        b_flat[i].Q_on_grid], Q_shape(grids))
                    ELSE None
    /\ b_pc' = "pass1"
    /\ UNCHANGED <<grids, check_grid, pc, call, seeded, Q_V0, Q_V, S_V,
                   S_old, passes, cleared, first>>
    /\ UNCHANGED <<p_map, b_idx, b_flat, calls, raised, args, results,
                   pending, parT>>
    /\ UNCHANGED <<passVars, indexerVars, measureVars, laterVars>>

\* Pass 1 of parcompute_Q_map (lines 476-480) and the start of the pool
Pass1 ==
    /\ b_pc = "pass1"
    /\ args' = [i \in 0..(total_gridpoints(grids) - 1) |->
                   sa2xp(grids, state_action_points(grids)[i + 1], p_map.p)]
    /\ results' = [i \in 0..(total_gridpoints(grids) - 1) |-> None]
    /\ pending' = 0..(total_gridpoints(grids) - 1)
    /\ b_pc' = "pool"
    /\ UNCHANGED <<p_map, b_idx, b_flat, calls, raised, parT>>
    /\ UNCHANGED <<solverVars, passVars, indexerVars, measureVars, laterVars>>

\* A pool that lists the results in the order the workers finish
Worker_unordered ==
    /\ b_pc = "pool"
    /\ \E i \in pending :
          /\ results' = [results EXCEPT
                            ![Cardinality(DOMAIN results \ pending)] =
                                call_p_map(p_map, args[i].x, args[i].p)]
          /\ pending' = pending \ {i}
    /\ UNCHANGED <<p_map, b_pc, b_idx, b_flat, calls, raised, args, parT>>
    /\ UNCHANGED <<solverVars, passVars, indexerVars, measureVars, laterVars>>

\* A pool in which an invocation that hangs is given up and yields a result
Worker_regardless ==
    /\ b_pc = "pool"
    /\ \E i \in pending :
          /\ results' = [results EXCEPT
                            ![i] = call_p_map(p_map, args[i].x, args[i].p)]
          /\ pending' = pending \ {i}
    /\ UNCHANGED <<p_map, b_pc, b_idx, b_flat, calls, raised, args, parT>>
    /\ UNCHANGED <<solverVars, passVars, indexerVars, measureVars, laterVars>>

\* A worker of pool.starmap (line 485) finishes one job, whichever of those
\* whose invocation terminates: the result goes to the job's position in the
\* result list
Worker ==
    /\ b_pc = "pool"
    /\ \E i \in pending \ hung :
          /\ results' = [results EXCEPT
                            ![i] = call_p_map(p_map, args[i].x, args[i].p)]
          /\ pending' = pending \ {i}
    /\ UNCHANGED <<p_map, b_pc, b_idx, b_flat, calls, raised, args, parT>>
    /\ UNCHANGED <<solverVars, passVars, indexerVars, measureVars, laterVars>>

\* starmap has returned: Pass 3 (lines 502-525), reshape and return
Pass3 ==
    /\ b_pc = "pool"
    /\ pending = {}
    /\ IF \E i \in DOMAIN results :
             entry_raises(grids, par_map(grids, p_map, results), check_grid, i)
       THEN /\ raised' = raised \cup {"par"}
            /\ parT' = None
       ELSE /\ parT' = compute_Q_map(grids, par_map(grids, p_map, results),
                                     check_grid)
            /\ UNCHANGED raised
    /\ b_pc' = "solve"
    /\ UNCHANGED <<p_map, b_idx, b_flat, calls, args, results, pending>>
    /\ UNCHANGED <<solverVars, passVars, indexerVars, measureVars, laterVars>>

\* The while loop of compute_QV (lines 256-267) run to its end; raised tells
\* whether an is_outside call raised on the way.
RECURSIVE while_loop(_, _, _, _, _, _)
while_loop(Qm, g, QV, S, So, Qog) ==
    IF loop_test(S, So)
    THEN IF pass_ok(Qm, g, QV, S, Qog)
         THEN while_loop(Qm, g, pass_Q_V(Qm, g, QV, S, Qog),
                         project_Q2S(pass_Q_V(Qm, g, QV, S, Qog), g), S, Qog)
         ELSE [raised |-> TRUE, Q_V |-> QV, S_V |-> S]
    ELSE [raised |-> FALSE, Q_V |-> QV, S_V |-> S]

\* compute_QV(Q_map, grids, Q_V=seed, Q_on_grid=Qog) as a whole
compute_QV(Qm, g, seed, Qog) ==
    while_loop(Qm, g, initial_Q_V(Qm, seed),
               project_Q2S(initial_Q_V(Qm, seed), g),
               [sdx \in ndindex(grid_shape(g.states)) |-> FALSE], Qog)

\* The solver is run on the table compute_Q_map returned, without a seed or
\* with ~Q_F as the demos do
Solve ==
    /\ b_pc = "solve"
    /\ b_pc' = "end"
    /\ IF "seq" \in raised
       THEN UNCHANGED <<Q_V, S_V, raised, pc>>
       ELSE \E seed \in {None, [q \in DOMAIN Q_F |-> ~Q_F[q]]} :
              LET r == compute_QV(Q_map, grids, seed, Q_on_grid)
              IN IF r.raised
                 THEN /\ raised' = raised \cup {"solver"}
                      /\ UNCHANGED <<Q_V, S_V, pc>>
                 ELSE /\ Q_V' = r.Q_V
                      /\ S_V' = r.S_V
                      /\ pc' = "done"
                      /\ UNCHANGED raised
    /\ UNCHANGED <<grids, check_grid, Q_map, Q_F, Q_on_grid, call, seeded,
                   Q_V0, S_old, passes, cleared, first>>
    /\ UNCHANGED <<p_map, b_idx, b_flat, calls, args, results, pending, parT>>
    /\ UNCHANGED <<passVars, indexerVars, measureVars, laterVars>>

NextBuild == SeqStep \/ SeqReturn \/ Pass1 \/ Worker \/ Pass3 \/ Solve

SpecBuild == InitBuild /\ [][NextBuild]_vars

-----------------------------------------------------------------------------
(* Properties of the builders *)

\* Both builders are over
BuildersOver == b_pc \in {"solve", "end"}

\* compute_Q_map returned its tables
SeqReturned == b_pc # "seq" /\ "seq" \notin raised

\* parcompute_Q_map returned its tables
ParReturned == BuildersOver /\ "par" \notin raised

\* C12: on the same grid, map object and check_grid, parcompute_Q_map and
\* compute_Q_map return the same Q_map, Q_F and Q_on_grid, also when xp2s
\* reads a parameter that sa2xp sets per point.
C12_BuildersAgree ==
    (SeqReturned /\ ParReturned) =>
        /\ parT.Q_map = Q_map
        /\ parT.Q_F = Q_F
        /\ parT.Q_on_grid = Q_on_grid

\* What the loop body writes for a given s_next and failed
entry_of(g, chk, s_next, failed) ==
    Q_entry(g, [sa \in SeqToSet(state_action_points(g)) |->
                   [s_next |-> s_next, failed |-> failed]], chk, 0)

\* C13: in whatever order the workers finish, every result collected so far
\* stands at the index of its job and is the oracle's output for the i-th
\* encoded point; Pass 3 writes what it derives from result i at flat
\* position i of Q_map, Q_F and Q_on_grid.
C13_ResultsInInputOrder ==
    /\ b_pc = "pool" =>
          \A i \in DOMAIN results :
             /\ args[i] = sa2xp(grids, state_action_points(grids)[i + 1],
                                p_map.p)
             /\ results[i] = IF i \in pending THEN None
                             ELSE call_p_map(p_map, args[i].x, args[i].p)
    /\ ParReturned =>
          \A i \in DOMAIN results :
             LET m == np_unravel_index(i, Q_shape(grids))
                 e == entry_of(grids, check_grid,
                               xp2s(p_map, results[i].x_next, p_map.p),
                               results[i].failed)
             IN /\ results[i] = call_p_map(p_map, args[i].x, args[i].p)
                /\ parT.Q_map[m] = e.Q_map
                /\ parT.Q_F[m] = e.Q_F
                /\ check_grid => parT.Q_on_grid[m] = e.Q_on_grid

\* A job has finished before an earlier job whose result is different
C13_Witness ==
    /\ b_pc = "pool"
    /\ \E i, j \in DOMAIN results :
          /\ i < j /\ i \in pending /\ j \notin pending
          /\ results[j] # call_p_map(p_map, args[i].x, args[i].p)

\* The coordinate tuples of the state grid followed by those of the action
\* grid
all_grids == grids.states \o grids.actions

\* A is an array with one axis per grid of grid_tuple, axis d having as many
\* positions as the d-th grid has coordinates
HasShapeOf(A, grid_tuple) ==
    LET n == UNION {0..(Len(grid_tuple[d]) - 1) : d \in 1..Len(grid_tuple)}
    IN DOMAIN A = {m \in [1..Len(grid_tuple) -> n] :
                      \A d \in 1..Len(grid_tuple) : m[d] < Len(grid_tuple[d])}

\* C14: Q_map, Q_F and Q_on_grid as either builder returns them, and Q_V as
\* the solver returns it, have the shape state-grid shape + action-grid shape;
\* S_V has the state-grid shape.
C14_Shapes ==
    /\ SeqReturned =>
          /\ HasShapeOf(Q_map, all_grids)
          /\ HasShapeOf(Q_F, all_grids)
          /\ check_grid => HasShapeOf(Q_on_grid, all_grids)
    /\ ParReturned =>
          /\ HasShapeOf(parT.Q_map, all_grids)
          /\ HasShapeOf(parT.Q_F, all_grids)
          /\ check_grid => HasShapeOf(parT.Q_on_grid, all_grids)
    /\ pc = "done" =>
          /\ HasShapeOf(Q_V, all_grids)
          /\ HasShapeOf(S_V, grids.states)

\* Both builders and the solver have returned on a grid with two state
\* dimensions, with check_grid
C14_Witness ==
    /\ pc = "done"
    /\ SeqReturned /\ ParReturned
    /\ check_grid
    /\ Len(grids.states) = 2
    /\ \E q \in DOMAIN Q_V : Q_V[q]

\* What the oracle reports for the k-th call of compute_Q_map
called(k) == call_p_map(p_map, calls[k].x, calls[k].p)

\* C15: a failure the oracle reports is data. In both builders Q_F is true
\* exactly at the points where the oracle reported failed, Q_map is 0 there,
\* every point is evaluated, and on a grid without configuration error
\* neither builder raises.
C15_FailureIsData ==
    /\ grids \notin ErrorGrids => raised \cap {"seq", "par"} = {}
    /\ b_pc = "seq" =>
          \A i \in DOMAIN b_flat :
             /\ b_flat[i].Q_F = called(i + 1).failed
             /\ b_flat[i].Q_F => b_flat[i].Q_map = 0
    /\ SeqReturned =>
          /\ Len(calls) = total_gridpoints(grids)
          /\ \A i \in 0..(total_gridpoints(grids) - 1) :
                LET m == np_unravel_index(i, Q_shape(grids))
                IN /\ Q_F[m] = called(i + 1).failed
                   /\ Q_F[m] => Q_map[m] = 0
    /\ ParReturned =>
          /\ pending = {}
          /\ \A i \in DOMAIN results :
                LET m == np_unravel_index(i, Q_shape(grids))
                IN /\ parT.Q_F[m] = results[i].failed
                   /\ parT.Q_F[m] => parT.Q_map[m] = 0

\* Both builders have returned a table in which a failing point is followed
\* by a point that did not fail and whose entry is not 0
C15_Witness ==
    /\ SeqReturned /\ ParReturned
    /\ \E i, j \in DOMAIN results :
          /\ i < j
          /\ Q_F[np_unravel_index(i, Q_shape(grids))]
          /\ ~Q_F[np_unravel_index(j, Q_shape(grids))]
          /\ Q_map[np_unravel_index(j, Q_shape(grids))] # 0
          /\ parT.Q_F[np_unravel_index(i, Q_shape(grids))]
          /\ parT.Q_map[np_unravel_index(j, Q_shape(grids))] # 0

\* The low-dimensional successor compute_Q_map gets at flat position i
succ_of(i) == seq_map(grids, p_map)[state_action_points(grids)[i + 1]].s_next

\* s is a coordinate of the state grid in every dimension
on_node(s) ==
    \A d \in 1..Len(grids.states) :
        \E k \in 1..Len(grids.states[d]) : grids.states[d][k] = s[d]

\* The index of the node s lies on
node_of(s) ==
    [d \in 1..Len(grids.states) |->
        (CHOOSE k \in 1..Len(grids.states[d]) : grids.states[d][k] = s[d]) - 1]

\* The bin of s: per dimension the number of coordinates that are <= s
bins_of(s) ==
    [d \in 1..Len(grids.states) |->
        Cardinality({k \in 1..Len(grids.states[d]) : grids.states[d][k] <= s[d]})]

\* The nodes around a bin that exist
corners_of(b) ==
    {n \in [1..Len(grids.states) ->
                UNION {-1..Len(grids.states[d]) : d \in 1..Len(grids.states)}] :
        \A d \in 1..Len(grids.states) :
            /\ n[d] \in {b[d] - 1, b[d]}
            /\ n[d] >= 0 /\ n[d] < Len(grids.states[d])}

\* C16: with check_grid, a non-failing pair has Q_on_grid true iff its
\* successor is a grid coordinate in every state dimension; then Q_map is the
\* node index flattened over the grid shape, else the bin flattened over the
\* bin shape; and is_outside, given Q_on_grid, reads S_V at that node, resp.
\* at the corners of that bin.
C16_OnGridIndexing ==
    (SeqReturned /\ check_grid) =>
        \A i \in 0..(total_gridpoints(grids) - 1) :
            LET m == np_unravel_index(i, Q_shape(grids))
                s == succ_of(i)
            IN ~Q_F[m] =>
                /\ Q_on_grid[m] = on_node(s)
                /\ Q_map[m] =
                      IF on_node(s)
                      THEN np_ravel_multi_index(node_of(s),
                                                grid_shape(grids.states))
                      ELSE np_ravel_multi_index(bins_of(s),
                                                bin_shape(grids.states))
                /\ pc = "done" =>
                      is_outside(Q_map[m], grids.states, S_V, Q_on_grid[m])
                        = IF on_node(s) THEN ~S_V[node_of(s)]
                          ELSE \/ corners_of(bins_of(s)) = {}
                               \/ \E n \in corners_of(bins_of(s)) : ~S_V[n]

\* The solver has returned on a table with two state dimensions that has an
\* on-grid successor whose index differs between the two shapes, and an
\* off-grid successor
C16_Witness ==
    /\ pc = "done" /\ SeqReturned /\ check_grid
    /\ Len(grids.states) = 2
    /\ \E q \in DOMAIN Q_map : ~Q_F[q] /\ Q_on_grid[q] /\ Q_map[q] = 1
    /\ \E q \in DOMAIN Q_map : ~Q_F[q] /\ ~Q_on_grid[q]

\* The grid point with the multi-index m: the state and action coordinates
\* the components of m number
point_at(m) == [d \in 1..Len(all_grids) |-> all_grids[d][m[d] + 1]]

\* C17: compute_Q_map calls the oracle once per grid point, the k-th call at
\* the point whose multi-index is k in row-major order (state dimensions
\* outermost, action dimensions innermost), and the entries of Q_map and Q_F
\* at a multi-index are the result for the state and action coordinates with
\* these indices.
C17_OneCallPerPointInOrder ==
    /\ \A k \in 1..Len(calls) :
          calls[k] = sa2xp(grids,
                           point_at(np_unravel_index(k - 1, Q_shape(grids))),
                           p_map.p)
    /\ SeqReturned =>
          /\ Len(calls) = Cardinality(DOMAIN Q_map)
          /\ \A m \in DOMAIN Q_map :
                LET xp == sa2xp(grids, point_at(m), p_map.p)
                    r == call_p_map(p_map, xp.x, xp.p)
                    e == entry_of(grids, check_grid,
                                  xp2s(p_map, r.x_next, xp.p), r.failed)
                IN Q_map[m] = e.Q_map /\ Q_F[m] = e.Q_F

\* compute_Q_map has returned on a grid with three states and two actions,
\* the only failing pair being state 0 with action 1
C17_Witness ==
    /\ SeqReturned /\ b_pc # "seq"
    /\ Len(calls) = 6
    /\ \A m \in DOMAIN Q_F : Q_F[m] = (m = <<0, 1>>)
    /\ Q_map[<<1, 0>>] # Q_map[<<0, 0>>]

\* C18: on a grid with a configuration error both builders fail, and they
\* fail before the oracle has been called for any grid point.
C18_ConfigErrorFailsFast ==
    grids \in ErrorGrids =>
        /\ calls = <<>>
        /\ b_pc # "seq" => "seq" \in raised
        /\ b_pc = "pool" => pending = DOMAIN results
        /\ BuildersOver => "par" \in raised

-----------------------------------------------------------------------------
(* The grid indexer, called on its own *)

\* The largest number of coordinates of a grid given to digitize_s
MaxNodes == 2

\* The coordinates a grid is made of
Coords == {2 * i : i \in 0..(MaxNodes - 1)}

\* The strictly increasing grids, the grid without coordinates included
Grids1D ==
    {g \in UNION {[1..n -> Coords] : n \in 0..MaxNodes} :
        \A i, j \in 1..Len(g) : i < j => g[i] < g[j]}

\* The grid tuples: one or two dimensions
GridTuples == UNION {[1..D -> Grids1D] : D \in {1, 2}}

\* The values of a point's components: from below the first possible
\* coordinate to above the last
Values == (0 - Margin)..(2 * (MaxNodes - 1) + Margin)

\* The points: as many components as the grid has dimensions, fewer, or more
Points == UNION {[1..L -> Values] : L \in {1, 2, 3}}

\* Whether digitize_s(s, s_grid) raises: s[dim_idx] is read for every
\* dimension of s_grid (IndexError when s is shorter), and np.digitize
\* rejects bins that go up and down.
digitize_s_raises(s, s_grid) ==
    \/ Len(s) < Len(s_grid)
    \/ \E d \in 1..Len(s_grid) : np_digitize_raises(s_grid[d])

\* The outcome of digitize_s(s, s_grid)
digitize_s_outcome(s, s_grid) ==
    IF digitize_s_raises(s, s_grid)
    THEN [raised |-> TRUE, val |-> None]
    ELSE [raised |-> FALSE, val |-> digitize_s(s, s_grid, None, TRUE)]

InitGrid ==
    /\ grids = ScenarioGrids
    /\ check_grid = FALSE
    /\ Q_map = None /\ Q_F = None /\ Q_on_grid = None
    /\ pc = "build"
    /\ call = 0
    /\ seeded = FALSE
    /\ Q_V0 = None /\ Q_V = None /\ S_V = None /\ S_old = None
    /\ passes = 0
    /\ cleared = 0
    /\ first = None
    /\ PassIdle
    /\ MeasureIdle
    /\ LaterIdle
    /\ BuildIdle
    /\ arg_s \in Points \cup {None}
    /\ arg_s_grid \in GridTuples
    /\ ret = None
    /\ prev = None
    /\ arg_bin = None
    /\ corners = None

\* digitize_s(s, s_grid) is called
Digitize ==
    /\ arg_s # None
    /\ ret = None
    /\ ret' = digitize_s_outcome(arg_s, arg_s_grid)
    /\ UNCHANGED <<arg_s, arg_s_grid, prev, arg_bin, corners>>
    /\ UNCHANGED <<solverVars, passVars, buildVars, measureVars, laterVars>>

\* digitize_s is called again on the same grid, with one component of the
\* point increased
DigitizeLarger ==
    /\ ret # None
    /\ \E d \in 1..Len(arg_s) :
          /\ arg_s[d] + 1 \in Values
          /\ arg_s' = [arg_s EXCEPT ![d] = arg_s[d] + 1]
          /\ ret' = digitize_s_outcome(arg_s', arg_s_grid)
    /\ prev' = [s |-> arg_s, ret |-> ret]
    /\ UNCHANGED <<arg_s_grid, arg_bin, corners>>
    /\ UNCHANGED <<solverVars, passVars, buildVars, measureVars, laterVars>>

\* The bin indices given to get_grid_indices: one component per dimension of
\* the grid, from below bin 0 to above the last bin
BinIndices(s_grid) ==
    {b \in [1..Len(s_grid) -> -1..(MaxNodes + 1)] :
        \A d \in 1..Len(s_grid) : b[d] <= Len(s_grid[d]) + 1}

\* get_grid_indices(bin_idx, s_grid) is called, by a caller that has no
\* point to digitize
GetGridIndices ==
    /\ arg_s = None
    /\ arg_bin = None
    /\ \E b \in BinIndices(arg_s_grid) :
          /\ arg_bin' = b
          /\ corners' = get_grid_indices(b, arg_s_grid)
    /\ UNCHANGED <<arg_s, arg_s_grid, ret, prev>>
    /\ UNCHANGED <<solverVars, passVars, buildVars, measureVars, laterVars>>

NextGrid == Digitize \/ DigitizeLarger \/ GetGridIndices

SpecGrid == InitGrid /\ [][NextGrid]_vars

\* C19: digitize_s raises whenever the point and the grid tuple differ in
\* length, be the point shorter or longer; it returns no index then.
C19_DimensionMismatchRaises ==
    (ret # None /\ Len(arg_s) # Len(arg_s_grid)) => ret.raised

\* C20: on strictly increasing grids the bin index of a value lies in
\* 0..n, n the number of coordinates; it does not decrease when the value
\* increases; and for the coordinate with the index i (counted from 0) it is
\* at least i.
C20_DigitizeMonotone ==
    (ret # None /\ ~ret.raised) =>
        \A d \in 1..Len(arg_s_grid) :
            /\ ret.val[d] \in 0..Len(arg_s_grid[d])
            /\ \A i \in 0..(Len(arg_s_grid[d]) - 1) :
                  arg_s_grid[d][i + 1] = arg_s[d] => ret.val[d] >= i
            /\ (prev # None /\ prev.s[d] <= arg_s[d]) =>
                  prev.ret.val[d] <= ret.val[d]

\* A value has stepped from below a coordinate onto it, on a grid with two
\* coordinates, and the bin index went up
C20_Witness ==
    /\ ret # None /\ ~ret.raised /\ prev # None
    /\ Len(arg_s) = Len(arg_s_grid)
    /\ \E d \in 1..Len(arg_s_grid) :
          /\ Len(arg_s_grid[d]) = 2
          /\ arg_s[d] = arg_s_grid[d][2]
          /\ prev.s[d] < arg_s[d]
          /\ prev.ret.val[d] < ret.val[d]

\* C21 as stated: in each dimension the bin index is the number of
\* coordinates strictly less than the value.
C21_CountStrictlyLess ==
    (ret # None /\ ~ret.raised) =>
        \A d \in 1..Len(arg_s_grid) :
            ret.val[d] = Cardinality({k \in 1..Len(arg_s_grid[d]) :
                                         arg_s_grid[d][k] < arg_s[d]})

\* C21: in each dimension the k-th coordinate counts into the bin index iff
\* it is less than or equal to the value, so the index is the number of
\* coordinates <= the value; it is 0 iff the value is below the first
\* coordinate and n iff the value is at or above the last.
C21_CountLessOrEqual ==
    (ret # None /\ ~ret.raised) =>
        \A d \in 1..Len(arg_s_grid) :
            LET g == arg_s_grid[d]
                n == Len(arg_s_grid[d])
                v == arg_s[d]
            IN /\ \A k \in 1..n : (k <= ret.val[d]) <=> (g[k] <= v)
               /\ n > 0 => ((ret.val[d] = 0) <=> (v < g[1]))
               /\ n > 0 => ((ret.val[d] = n) <=> (v >= g[n]))

\* digitize_s has returned for a value that is the first of two coordinates:
\* one coordinate is <= the value, none is less
C21_Witness ==
    /\ ret # None /\ ~ret.raised
    /\ Len(arg_s) = Len(arg_s_grid)
    /\ \E d \in 1..Len(arg_s_grid) :
          /\ Len(arg_s_grid[d]) = 2
          /\ arg_s[d] = arg_s_grid[d][1]
          /\ ret.val[d] = 1

\* The tuples with b[d] - 1 or b[d] in every dimension and every component
\* in 0..n_d - 1
corners_in_range(b, s_grid) ==
    {n \in [1..Len(s_grid) -> -2..(MaxNodes + 1)] :
        \A d \in 1..Len(s_grid) :
            /\ n[d] = b[d] - 1 \/ n[d] = b[d]
            /\ 0 <= n[d] /\ n[d] <= Len(s_grid[d]) - 1}

\* C22: get_grid_indices returns exactly the tuples that have b[d] - 1 or
\* b[d] in each dimension and every component in 0..n_d - 1, each once; the
\* list is empty iff there is no such tuple.
C22_CornersInRange ==
    arg_bin # None =>
        /\ SeqToSet(corners) = corners_in_range(arg_bin, arg_s_grid)
        /\ Len(corners) = Cardinality(corners_in_range(arg_bin, arg_s_grid))
        /\ (corners = <<>>) <=> (corners_in_range(arg_bin, arg_s_grid) = {})

\* get_grid_indices has returned for a bin at the upper edge of one dimension
\* and inside the other: two of the four neighbours are kept
C22_Witness ==
    /\ arg_bin # None
    /\ Len(arg_s_grid) = 2
    /\ arg_bin[1] = Len(arg_s_grid[1])
    /\ Len(arg_s_grid[2]) = 2 /\ arg_bin[2] = 1
    /\ Len(corners) = 2

-----------------------------------------------------------------------------
(* Properties of the measures *)

\* The corner list the solver judges the pair q by
solver_corners(q) ==
    get_grid_indices(np_unravel_index(Q_map[q], bin_shape(grids.states)),
                     grids.states)

\* C23: map_S2Q gives a viable pair the mean of S_M over the corners the
\* solver uses for it, a viable pair with Q_on_grid the value of S_M at its
\* successor node alone, and a pair that is not viable 0.
C23_BackMapAsSolver ==
    pc = "mapped" =>
        \A q \in DOMAIN Q_M :
            IF ~Q_V[q] THEN Q_M[q].num = 0
            ELSE IF on_grid_of(Q_on_grid, Q_V)[q]
            THEN Q_M[q].num =
                    Q_M[q].den * S_M[np_unravel_index(Q_map[q],
                                         grid_shape(grids.states))]
            ELSE /\ Q_M[q].den = Len(solver_corners(q))
                 /\ Q_M[q].num = sum_over(S_M, solver_corners(q))

-----------------------------------------------------------------------------
(* get_feasibility_mask, step by step *)

\* The predicates tried on a grid: any boolean function of the encoded points
Predicates(g) ==
    [{sa2xp(g, state_action_points(g)[i], p_default(g)) :
         i \in 1..Len(state_action_points(g))} -> BOOLEAN]

InitMask ==
    /\ grids \in BuildGrids
    /\ check_grid = FALSE
    /\ Q_map = None /\ Q_F = None /\ Q_on_grid = None
    /\ pc = "build"
    /\ call = 0
    /\ seeded = FALSE
    /\ Q_V0 = None /\ Q_V = None /\ S_V = None /\ S_old = None
    /\ passes = 0
    /\ cleared = 0
    /\ first = None
    /\ PassIdle
    /\ MeasureIdle
    /\ BuildIdle
    /\ IndexerIdle
    /\ PoolIdle
    /\ EncodeIdle
    /\ RestIdle
    /\ feasible \in Predicates(grids)
    /\ m_idx = 0 /\ m_calls = <<>> /\ m_flat = None
    /\ Q_feasible = None

\* Q_feasible[idx] = feasible(x, p) with the predicate's answer negated
mask_entry_negated(f, x, p) == ~f[[x |-> x, p |-> p]]

\* Q_feasible[idx] = feasible(x, p) (line 405)
mask_entry(f, x, p) == f[[x |-> x, p |-> p]]

\* One iteration of get_feasibility_mask's loop (lines 402-405)
MaskStep ==
    /\ Q_feasible = None
    /\ m_idx < total_gridpoints(grids)
    /\ LET xp == sa2xp(grids, state_action_points(grids)[m_idx + 1],
                       p_default(grids))
       IN /\ m_calls' = Append(m_calls, xp)
          /\ m_flat' = (m_idx :> mask_entry(feasible, xp.x, xp.p)) @@ m_flat
    /\ m_idx' = m_idx + 1
    /\ UNCHANGED <<feasible, Q_feasible>>
    /\ UNCHANGED exceptMask

\* The loop is over: the mask is reshaped and returned (line 407); the
\* returned mask is kept as the pair (array)
MaskReturn ==
    /\ Q_feasible = None
    /\ m_idx = total_gridpoints(grids)
    /\ Q_feasible' = <<np_reshape(m_flat, Q_shape(grids))>>
    /\ UNCHANGED <<feasible, m_idx, m_calls, m_flat>>
    /\ UNCHANGED exceptMask

NextMask == MaskStep \/ MaskReturn

SpecMask == InitMask /\ [][NextMask]_vars

\* C24: get_feasibility_mask calls the predicate once per grid point, the
\* k-th call on the encoding of the k-th point in row-major order with the
\* default parameters; the mask it returns has the shape state shape +
\* action shape and holds at every multi-index the predicate's value for the
\* point with these coordinates; a predicate that is false everywhere gives
\* a mask that is false everywhere.
C24_MaskIsPredicate ==
    /\ \A k \in 1..Len(m_calls) :
          m_calls[k] = sa2xp(grids,
                             point_at(np_unravel_index(k - 1, Q_shape(grids))),
                             p_default(grids))
    /\ Q_feasible # None =>
          /\ HasShapeOf(Q_feasible[1], all_grids)
          /\ Len(m_calls) = Cardinality(DOMAIN Q_feasible[1])
          /\ \A m \in DOMAIN Q_feasible[1] :
                Q_feasible[1][m] =
                    feasible[sa2xp(grids, point_at(m), p_default(grids))]
          /\ (\A e \in DOMAIN feasible : ~feasible[e]) =>
                \A m \in DOMAIN Q_feasible[1] : ~Q_feasible[1][m]

\* The mask has been returned on the grid with three states and two actions
\* for a predicate that holds at one point only
C24_Witness ==
    /\ Q_feasible # None
    /\ Len(m_calls) = 6
    /\ \A m \in DOMAIN Q_feasible[1] : Q_feasible[1][m] = (m = <<1, 0>>)

\* Scenario B: the mask has been returned for a predicate that is false
\* everywhere, on a grid with two state dimensions
C24_WitnessB ==
    /\ Q_feasible # None
    /\ Len(grids.states) = 2
    /\ \A e \in DOMAIN feasible : ~feasible[e]

-----------------------------------------------------------------------------
(* The pool of parcompute_Q_map with an oracle invocation that may hang *)

\* The grids the pool is followed on
PoolGrids ==
    { [states |-> << <<0, 2>> >>, actions |-> << <<2>> >>], ScenarioGrids }

InitPool ==
    /\ grids \in PoolGrids
    /\ check_grid \in BOOLEAN
    /\ Q_map = None /\ Q_F = None /\ Q_on_grid = None
    /\ pc = "build"
    /\ call = 0
    /\ seeded = FALSE
    /\ Q_V0 = None /\ Q_V = None /\ S_V = None /\ S_old = None
    /\ passes = 0
    /\ cleared = 0
    /\ first = None
    /\ PassIdle
    /\ MeasureIdle
    /\ MaskIdle
    /\ IndexerIdle
    /\ p_map \in P_maps(grids)
    /\ b_pc = "pass1" /\ b_idx = 0 /\ b_flat = None
    /\ calls = <<>> /\ raised = {} /\ args = None /\ results = None
    /\ pending = {} /\ parT = None
    /\ hung = {}
    /\ EncodeIdle
    /\ RestIdle

\* The oracle invocation of one job of pool.starmap (line 485) enters a
\* computation that never terminates; hung never shrinks afterwards
Hang ==
    /\ b_pc = "pool"
    /\ hung = {}
    /\ \E i \in pending : hung' = {i}
    /\ UNCHANGED buildVars
    /\ UNCHANGED exceptBuild

NextPool == Pass1 \/ Worker \/ Hang \/ Pass3

SpecPool == InitPool /\ [][NextPool]_vars

\* The jobs of the batch: the flat positions of the grid points
jobs == 0..(total_gridpoints(grids) - 1)

\* Pass 3 has read the results
Pass3Over == BuildersOver

\* C25: in parcompute_Q_map the pool runs only once every grid point is
\* encoded, in order, with the copy of the default parameters; Pass 3 has
\* read the results only if every invocation of the batch has completed and
\* its result is at the job's position; and while one invocation hangs, the
\* build has returned nothing, no partial table either.
C25_BatchBarrier ==
    /\ b_pc = "pass1" => args = None /\ results = None
    /\ b_pc = "pool" =>
          /\ DOMAIN args = jobs
          /\ \A i \in jobs :
                args[i] = sa2xp(grids, state_action_points(grids)[i + 1],
                                p_map.p)
          /\ \A i \in jobs \ pending :
                results[i] = call_p_map(p_map, args[i].x, args[i].p)
          /\ \A i \in pending : results[i] = None
    /\ Pass3Over =>
          /\ pending = {}
          /\ \A i \in jobs : results[i] # None
    /\ hung # {} =>
          /\ ~Pass3Over
          /\ parT = None
          /\ hung \subseteq pending

\* One invocation of Scenario A's batch hangs while all the others have
\* completed
C25_Witness ==
    /\ grids = ScenarioGrids
    /\ b_pc = "pool"
    /\ hung # {}
    /\ pending = hung

\* Pass 3 has returned the table of a batch of six jobs
C25_WitnessReturned ==
    /\ Pass3Over
    /\ parT # None
    /\ Cardinality(jobs) = 6

-----------------------------------------------------------------------------
(* Pass 1 of parcompute_Q_map with sa2xp_y_xdot_timedaoa of the daslip model.
   A state vector x has the ten components of the demo's x0: x[k] of the
   code is x[k + 1] here, and x[-1], the ground height, is x[10].  Angles
   are counted in quarter turns, where sine and cosine are integers. *)

np_sin(a) == CASE a % 4 = 1 -> 1 [] a % 4 = 3 -> -1 [] OTHER -> 0

np_cos(a) == CASE a % 4 = 0 -> 1 [] a % 4 = 2 -> -1 [] OTHER -> 0

\* The 2 x M array p["actuator_force"]: times and forces
actuator_force_array == << <<0, 1, 2>>, <<0, 5, 0>> >>

\* The default parameters p_map.p of the demo.  The arrays p["x0"] and
\* p["actuator_force"] are objects: the dict holds references to them, and
\* dict.copy() copies the references.  A delay is the real number
\* sqrt(root_of[1] / root_of[2]) - minus.
daslip_p ==
    [resting_length |-> 1,
     gravity |-> 2,
     angle_of_attack |-> 1,
     actuator_resting_length |-> 1,
     actuator_force |-> "actuator_force",
     activation_delay |-> [root_of |-> <<0, 1>>, minus |-> 0],
     angle_of_attack_offset |-> 0,
     swing_leg_length_offset |-> 0,
     x0 |-> "x0"]

\* reset_leg(x, p) (lines 342-350): writes x[4], x[5], x[6] of the array it
\* is given and returns that array
reset_leg(x, p) ==
    LET leg_angle == p.angle_of_attack + p.angle_of_attack_offset
        base_length == p.actuator_resting_length + p.swing_leg_length_offset
    IN [x EXCEPT
           ![5] = x[1] + np_sin(leg_angle) * (p.resting_length + base_length),
           ![6] = x[2] - np_cos(leg_angle) * (p.resting_length + base_length),
           ![7] = base_length]

\* feasible(x, p) of the daslip model (lines 6-13)
daslip_feasible(x, p) == ~(x[6] < x[10] \/ x[2] < x[10])

\* p["actuator_force"][0, start_idx] with start_idx the first column whose
\* force is not zero (lines 447-448)
time_to_activation ==
    LET start_idx == CHOOSE k \in 1..Len(actuator_force_array[2]) :
                        /\ actuator_force_array[2][k] # 0
                        /\ \A j \in 1..(k - 1) :
                              actuator_force_array[2][j] = 0
    IN actuator_force_array[1][start_idx]

\* sa2xp_y_xdot_timedaoa(state_action, p_def) (lines 433-452) called when
\* the array p_def["x0"] holds content: x is a copy made after reset_leg, p
\* a copy of the dict p_def with the same references, x0 what the call
\* leaves in the array.
sa2xp_y_xdot_timedaoa(state_action, p_def, content) ==
    LET p == [p_def EXCEPT !.angle_of_attack = state_action[3]]
        x == reset_leg([content EXCEPT ![2] = state_action[1],
                                       ![3] = state_action[2]], p)
    IN [x |-> x,
        p |-> IF daslip_feasible(x, p)
              THEN [p EXCEPT !.activation_delay =
                       [root_of |-> <<2 * (x[6] - x[10]), p.gravity>>,
                        minus |-> time_to_activation]]
              ELSE p,
        x0 |-> x]

\* The grids Pass 1 is followed on: two state dimensions, height and
\* forward speed, and the angle of attack as the action
EncodeGrids ==
    {[states |-> <<y, xdot>>, actions |-> <<aoa>>] :
        y \in {<<1>>, <<1, 2>>, <<0, 1, 3>>},
        xdot \in {<<0>>, <<0, 1>>},
        aoa \in {<<0>>, <<0, 1>>, <<1, 2>>}}

\* The contents of p_map.p["x0"] when the build is called
X0s == {<<0, 1, 5, 0, 0, 0, 1, 0, 0, h>> : h \in {0, 1}}

InitEncode ==
    /\ grids \in EncodeGrids
    /\ check_grid = FALSE
    /\ Q_map = None /\ Q_F = None /\ Q_on_grid = None
    /\ pc = "build"
    /\ call = 0
    /\ seeded = FALSE
    /\ Q_V0 = None /\ Q_V = None /\ S_V = None /\ S_old = None
    /\ passes = 0
    /\ cleared = 0
    /\ first = None
    /\ PassIdle
    /\ MeasureIdle
    /\ BuildIdle
    /\ IndexerIdle
    /\ MaskIdle
    /\ PoolIdle
    /\ RestIdle
    /\ x0_array \in X0s
    /\ x0_default = x0_array
    /\ e_idx = 0 /\ e_args = <<>>
    /\ e_pc = "pass1"

\* One element of the list comprehension of line 480: p is the shallow copy
\* of p_map.p made at line 479, so p["x0"] is the array of p_map.p
Encode ==
    /\ e_pc = "pass1"
    /\ e_idx < total_gridpoints(grids)
    /\ LET r == sa2xp_y_xdot_timedaoa(state_action_points(grids)[e_idx + 1],
                                      daslip_p, x0_array)
       IN /\ e_args' = Append(e_args, [x |-> r.x, p |-> r.p])
          /\ x0_array' = r.x0
    /\ e_idx' = e_idx + 1
    /\ UNCHANGED <<x0_default, e_pc>>
    /\ UNCHANGED exceptEncode

\* The list is complete: pool.starmap is called (line 485)
StartPool ==
    /\ e_pc = "pass1"
    /\ e_idx = total_gridpoints(grids)
    /\ e_pc' = "pool"
    /\ UNCHANGED <<x0_array, x0_default, e_idx, e_args>>
    /\ UNCHANGED exceptEncode

NextEncode == Encode \/ StartPool

SpecEncode == InitEncode /\ [][NextEncode]_vars

\* The value of a pair (x, p) when the array p["x0"] holds content
value_of(pair, content) ==
    [x |-> pair.x, p |-> [pair.p EXCEPT !.x0 = content]]

\* The mutable objects a pair refers to: arrays are held by reference, the
\* vector x is a copy of its own
objects_of(pair) == {pair.p.x0, pair.p.actuator_force}

\* C26: when the pool starts, the pair of every grid point has the value
\* the encoder gives for that point from the defaults, and no two pairs
\* refer to the same mutable object.
C26_PairsKept ==
    e_pc = "pool" =>
        /\ \A i \in 1..Len(e_args) :
              value_of(e_args[i], x0_array) =
                  LET r == sa2xp_y_xdot_timedaoa(
                               state_action_points(grids)[i], daslip_p,
                               x0_default)
                  IN value_of([x |-> r.x, p |-> r.p], r.x0)
        /\ \A i, j \in 1..Len(e_args) :
              i # j => objects_of(e_args[i]) \cap objects_of(e_args[j]) = {}

\* When the pool starts, the state vector x of every pair is the one the
\* encoder gives for the point from the defaults
C26_StatesKept ==
    e_pc = "pool" =>
        \A i \in 1..Len(e_args) :
            e_args[i].x =
                sa2xp_y_xdot_timedaoa(state_action_points(grids)[i],
                                      daslip_p, x0_default).x

\* When the pool starts, p["x0"] of every pair has the value the encoder
\* left there for the point
C26_ParametersKept ==
    e_pc = "pool" =>
        \A i \in 1..Len(e_args) : x0_array = e_args[i].x

-----------------------------------------------------------------------------
(* The arrays of compute_QV's caller *)

\* The array the caller passed as Q_V.  compute_QV binds Q_V to a copy only
\* when the argument is None (lines 244-246); a given array is the very
\* object the loop writes to (line 264) and the call returns (line 269).
Q_N == IF seeded THEN Q_V ELSE None

\* C27: during a call of compute_QV with a seed, the caller's seed array
\* keeps the value it was passed with, and Q_map and Q_on_grid keep theirs.
C27_SeedUnchanged ==
    [][pc = "while" =>
          /\ Q_map' = Q_map
          /\ Q_on_grid' = Q_on_grid
          /\ seeded => Q_N' = Q_V0]_vars

\* During a call of compute_QV, Q_map and Q_on_grid keep their values
C27_TablesUnchanged ==
    [][pc = "while" => Q_map' = Q_map /\ Q_on_grid' = Q_on_grid]_vars

-----------------------------------------------------------------------------
(* The corners of the bins the builder stores *)

\* The bin index is_outside reads from the entry of the pair q (line 281)
stored_bin(q) == np_unravel_index(Q_map[q], bin_shape(grids.states))

\* The pair q holds a bin and not a node
holds_bin(q) == ~on_grid_of(Q_on_grid, Q_map)[q]

\* The estimates S_V a solver may hold on the grid
Estimates == [ndindex(grid_shape(grids.states)) -> BOOLEAN]

\* C28: every bin index in a table compute_Q_map returned has its
\* components between 0 and the number of nodes of the dimension, and
\* get_grid_indices keeps at least one corner of it; is_outside is true of
\* such an entry exactly when the estimate is false at one of the corners
\* of the bin that are nodes of the grid, whatever the estimate.
C28_StoredBinsHaveCorners ==
    Q_map # None =>
        \A q \in DOMAIN Q_map :
            holds_bin(q) =>
                /\ \A d \in 1..Len(grids.states) :
                      /\ Len(grids.states[d]) >= 1
                      /\ stored_bin(q)[d] \in 0..Len(grids.states[d])
                /\ Len(get_grid_indices(stored_bin(q), grids.states)) > 0
                /\ \A S \in Estimates :
                      is_outside(Q_map[q], grids.states, S, FALSE) =
                          \E n \in corners_of(stored_bin(q)) : ~S[n]

\* The solver has returned with a viable pair whose successor is in the bin
\* above the last node of a grid with three nodes, of which only one corner
\* is kept, and with a pair cleared whose successor is in bin 0
C28_Witness ==
    /\ pc = "done"
    /\ Len(grids.states[1]) = 3
    /\ \E q \in DOMAIN Q_map :
          /\ holds_bin(q)
          /\ stored_bin(q) = <<3>>
          /\ Q_V[q]
          /\ Len(get_grid_indices(stored_bin(q), grids.states)) = 1
    /\ \E q \in DOMAIN Q_map :
          /\ holds_bin(q)
          /\ stored_bin(q) = <<0>>
          /\ Q_V0[q] /\ ~Q_V[q]

-----------------------------------------------------------------------------
(* The deprecated solver compute_QV_2D.  A table is a function on the pairs
   <<sdx, adx>> counted from 0; Q_map holds successor states, not bins. *)

\* Neither builder nor solver of the N-D code is being followed.
SolverIdle ==
    /\ grids = None /\ check_grid = FALSE
    /\ Q_map = None /\ Q_F = None /\ Q_on_grid = None
    /\ pc = "idle" /\ call = 0 /\ seeded = FALSE
    /\ Q_V0 = None /\ Q_V = None /\ S_V = None /\ S_old = None
    /\ passes = 0 /\ cleared = 0 /\ first = None

\* Q.shape
shape_2D(g) == <<Len(g.states), Len(g.actions)>>

\* sum(Q[sdx, :]) over the first k columns
RECURSIVE sum_row(_, _, _)
sum_row(Q, sdx, k) ==
    IF k = 0 THEN 0 ELSE sum_row(Q, sdx, k - 1) + Q[<<sdx, k - 1>>]

\* project_Q2S_2D(Q) (lines 45-50)
project_Q2S_2D(Q, g) ==
    [sdx \in 0..(Len(g.states) - 1) |->
        IF sum_row(Q, sdx, Len(g.actions)) > 0 THEN 1 ELSE 0]

\* sum(S_V) over the first k states
RECURSIVE sum_S(_, _)
sum_S(S, k) == IF k = 0 THEN 0 ELSE sum_S(S, k - 1) + S[k - 1]

\* is_outside_2D(s, S_V, s_grid) (lines 53-64) for a state s
is_outside_2D(s, S, s_grid) ==
    IF sum_S(S, Len(s_grid)) <= 1
    THEN TRUE
    ELSE LET positive == {k \in 0..(Len(s_grid) - 1) : S[k] > 0}
             s_min == s_grid[(CHOOSE k \in positive :
                                 \A j \in positive : k <= j) + 1]
             s_max == s_grid[(CHOOSE k \in positive :
                                 \A j \in positive : k >= j) + 1]
         IN s > s_max \/ s < s_min

\* Q_V[qdx] = 0 (line 86): qdx indexes the first axis, the whole row is set
clear_row(QV, qdx) ==
    [m \in DOMAIN QV |-> IF m[1] = qdx THEN 0 ELSE QV[m]]

\* The for loop of lines 82-85 from the flat position qdx on.  np.nditer
\* reads Q_V as it is when the position is reached.  Q_map[qdx] is row qdx
\* of Q_map: an IndexError beyond the last row, and a row of several
\* columns has no truth value in the comparisons of line 61 (ValueError).
RECURSIVE for_2D(_, _, _, _, _)
for_2D(Qm, g, QV, S, qdx) ==
    IF qdx = Len(g.states) * Len(g.actions)
    THEN [raised |-> FALSE, Q_V |-> QV]
    ELSE IF QV[np_unravel_index(qdx, shape_2D(g))] = 0
    THEN for_2D(Qm, g, QV, S, qdx + 1)
    ELSE IF qdx >= Len(g.states)
    THEN [raised |-> TRUE, Q_V |-> QV]
    ELSE IF sum_S(S, Len(g.states)) <= 1
    THEN for_2D(Qm, g, clear_row(QV, qdx), S, qdx + 1)
    ELSE IF Len(g.actions) > 1
    THEN [raised |-> TRUE, Q_V |-> QV]
    ELSE IF is_outside_2D(Qm[<<qdx, 0>>], S, g.states)
    THEN for_2D(Qm, g, clear_row(QV, qdx), S, qdx + 1)
    ELSE for_2D(Qm, g, QV, S, qdx + 1)

\* The while condition of compute_QV_2D (line 81)
while_test_2D(S, So) == S = So

\* The grids of the deprecated solver
Grids2D ==
    { [states |-> <<0, 2>>, actions |-> <<0>>],
      [states |-> <<0, 2, 4>>, actions |-> <<0>>],
      [states |-> <<0, 2>>, actions |-> <<0, 1>>] }

\* The successor states in a table: on the grid, between its nodes and
\* outside it; 0 also stands for a pair that failed
Successors2D == {-2, 0, 2, 3, 4}

Init2D ==
    /\ SolverIdle
    /\ PassIdle
    /\ MeasureIdle
    /\ BuildIdle
    /\ IndexerIdle
    /\ MaskIdle
    /\ PoolIdle
    /\ EncodeIdle
    /\ BatchIdle
    /\ grids_2D \in Grids2D
    /\ Q_map_2D \in [ndindex(shape_2D(grids_2D)) -> Successors2D]
    /\ Q_V_2D = None /\ S_V_2D = None /\ S_old_2D = None
    /\ pc_2D = "call"

\* compute_QV_2D(Q_map, grids) up to the while loop (lines 75-80)
Call2D ==
    /\ pc_2D = "call"
    /\ Q_V_2D' = [m \in DOMAIN Q_map_2D |->
                     IF Q_map_2D[m] > 0 THEN 1 ELSE Q_map_2D[m]]
    /\ S_old_2D' = [sdx \in 0..(Len(grids_2D.states) - 1) |-> 0]
    /\ S_V_2D' = project_Q2S_2D(Q_V_2D', grids_2D)
    /\ pc_2D' = "while"
    /\ UNCHANGED <<grids_2D, Q_map_2D>>
    /\ UNCHANGED except2D

\* One pass of the while loop (lines 81-88)
Pass2D ==
    /\ pc_2D = "while"
    /\ while_test_2D(S_V_2D, S_old_2D)
    /\ LET r == for_2D(Q_map_2D, grids_2D, Q_V_2D, S_V_2D, 0)
       IN /\ Q_V_2D' = r.Q_V
          /\ IF r.raised
             THEN /\ pc_2D' = "raised"
                  /\ UNCHANGED <<S_V_2D, S_old_2D>>
             ELSE /\ S_old_2D' = S_V_2D
                  /\ S_V_2D' = project_Q2S_2D(r.Q_V, grids_2D)
                  /\ UNCHANGED pc_2D
    /\ UNCHANGED <<grids_2D, Q_map_2D>>
    /\ UNCHANGED except2D

\* The loop exits and compute_QV_2D returns (Q_V, S_V) (line 89)
Return2D ==
    /\ pc_2D = "while"
    /\ ~while_test_2D(S_V_2D, S_old_2D)
    /\ pc_2D' = "done"
    /\ UNCHANGED <<grids_2D, Q_map_2D, Q_V_2D, S_V_2D, S_old_2D>>
    /\ UNCHANGED except2D

Next2D == Call2D \/ Pass2D \/ Return2D

Spec2D == Init2D /\ [][Next2D]_vars

\* The interpreter keeps running the call: a step that can be taken is
\* taken
FairSpec2D == Spec2D /\ WF_vars(Next2D)

\* C29: every call of compute_QV_2D comes to its end, and when it returns,
\* is_outside_2D judges the successor of no viable pair outside S_V.
C29_Terminates2D ==
    /\ <>(pc_2D \in {"done", "raised"})
    /\ [](pc_2D = "done" =>
            \A m \in DOMAIN Q_V_2D :
                Q_V_2D[m] # 0 =>
                    ~is_outside_2D(Q_map_2D[m], S_V_2D, grids_2D.states))

\* Every call of compute_QV_2D comes to its end
C29_ComesToEnd == <>(pc_2D \in {"done", "raised"})

\* When compute_QV_2D returns, is_outside_2D judges the successor of no
\* viable pair outside S_V
C29_PrunedOnReturn ==
    pc_2D = "done" =>
        \A m \in DOMAIN Q_V_2D :
            Q_V_2D[m] # 0 =>
                ~is_outside_2D(Q_map_2D[m], S_V_2D, grids_2D.states)

\* compute_QV_2D returns the table it started from
C29_ReturnsUnpruned ==
    pc_2D = "done" =>
        Q_V_2D = [m \in DOMAIN Q_map_2D |->
                     IF Q_map_2D[m] > 0 THEN 1 ELSE Q_map_2D[m]]

-----------------------------------------------------------------------------
(* poincare_map of the daslip and parslip models, in its two forms.  The
   integration step(x, p) and check_failure are given as tables. *)

\* The state vectors tried as columns: the second has its foot under the
\* ground
Columns ==
    { <<0, 1, 5, 0, 0, 1, 1, 0, 0, 0>>, <<0, 1, 5, 0, 0, -1, 1, 0, 0, 0>> }

\* The parameter sets tried
Parameters == {[daslip_p EXCEPT !.angle_of_attack = a] : a \in {0, 1}}

\* The largest number of columns tried
MaxColumns == 2

\* poincare_map(x, p) with p a dict (lines 22-26)
poincare_map(x, p, sol, fail) ==
    IF ~daslip_feasible(x, p)
    THEN [x_next |-> x, failed |-> TRUE]
    ELSE [x_next |-> sol[<<x, p>>], failed |-> fail[sol[<<x, p>>]]]

\* feasible(x, p) called with the matrix x (line 31): x[5] < x[-1] and
\* x[1] < x[-1] compare rows, and `or` and `if` ask for the truth value of
\* the first array, which numpy gives for one column only
matrix_feasible(x, p) ==
    IF Len(x) = 1 THEN [raised |-> FALSE, value |-> daslip_feasible(x[1], p)]
    ELSE [raised |-> TRUE, value |-> FALSE]

\* poincare_map(x, p) with p a tuple (lines 27-39): column idx of the
\* result and its failure flag, or the error of the first iteration
poincare_map_batch(x, p, sol, fail) ==
    IF Len(p) = 0
    THEN [raised |-> FALSE, columns |-> <<>>]
    ELSE IF matrix_feasible(x, p).raised
    THEN [raised |-> TRUE, columns |-> <<>>]
    ELSE [raised |-> FALSE,
          columns |->
             [idx \in 1..Len(p) |->
                 IF ~matrix_feasible(x, p).value
                 THEN [x_next |-> x[idx], failed |-> TRUE]
                 ELSE [x_next |-> sol[<<x[idx], p[idx]>>],
                       failed |-> fail[sol[<<x[idx], p[idx]>>]]]]]

InitBatch ==
    /\ SolverIdle
    /\ PassIdle
    /\ MeasureIdle
    /\ BuildIdle
    /\ IndexerIdle
    /\ MaskIdle
    /\ PoolIdle
    /\ EncodeIdle
    /\ TwoDIdle
    /\ \E n \in 0..MaxColumns :
          /\ pm_x \in [1..n -> Columns]
          /\ pm_p \in [1..n -> Parameters]
    /\ pm_sol \in [Columns \X Parameters -> Columns]
    /\ pm_fail \in [Columns -> BOOLEAN]
    /\ pm_ret = None
    /\ pm_single = None
    /\ pm_pc = "call"

\* poincare_map(x, p) is called in batch form
Batch ==
    /\ pm_pc = "call"
    /\ LET r == poincare_map_batch(pm_x, pm_p, pm_sol, pm_fail)
       IN /\ pm_ret' = r.columns
          /\ pm_pc' = IF r.raised THEN "raised" ELSE "returned"
    /\ UNCHANGED <<pm_x, pm_p, pm_sol, pm_fail, pm_single>>
    /\ UNCHANGED exceptBatch

\* poincare_map(x[:, idx], p[idx]) is called in single-point form
Single ==
    /\ pm_pc # "call"
    /\ \E idx \in DOMAIN pm_x \ DOMAIN pm_single :
          pm_single' =
              (idx :> poincare_map(pm_x[idx], pm_p[idx], pm_sol, pm_fail))
                  @@ pm_single
    /\ UNCHANGED <<pm_x, pm_p, pm_sol, pm_fail, pm_ret, pm_pc>>
    /\ UNCHANGED exceptBatch

NextBatch == Batch \/ Single

SpecBatch == InitBatch /\ [][NextBatch]_vars

\* C30: the batch form returns, and its column idx and failure flag are
\* what the single-point form returns for column idx with p[idx].
C30_BatchAsSingle ==
    pm_pc # "call" =>
        /\ pm_pc = "returned"
        /\ \A idx \in DOMAIN pm_single : pm_ret[idx] = pm_single[idx]

\* With at most one column the batch form returns what the single-point
\* form returns
C30_OneColumnAsSingle ==
    (pm_pc # "call" /\ Len(pm_x) <= 1) =>
        /\ pm_pc = "returned"
        /\ \A idx \in DOMAIN pm_single : pm_ret[idx] = pm_single[idx]

\* With two columns or more the batch form raises
C30_MoreColumnsRaise ==
    (pm_pc # "call" /\ Len(pm_x) >= 2) => pm_pc = "raised"

====
